---- MODULE Spec2Model ----
(***************************************************************************)
(* A model of the runforge-cli execution queue (queue.py), the execution   *)
(* daemon (daemon.py) and the enqueue-side commands (enqueue.py).          *)
(*                                                                         *)
(* Conventions:                                                            *)
(*  - a timestamp (datetime.now().isoformat()) is the integer clock `now`; *)
(*    the ISO strings the code compares are ordered as the instants are.   *)
(*  - a job id "job_<yyyymmdd_HHMMSS>_<counter:04d>" is the pair           *)
(*    <<second, counter>>; the format is injective on such pairs.          *)
(*  - Null stands for Python's None.                                       *)
(***************************************************************************)
EXTENDS Integers, Sequences, FiniteSets, TLC

\* ------------------------------------------------------------------ bounds
MaxJobs == 3
MaxTime == 1
MaxAttempt == 2
MaxFiles == 2
MaxVersions == 3
MaxOrphans == 1

Null == "null"
Stamp == "set"
UNGROUPED == "__ungrouped__"

\* The enqueue requests of the model: a run, the group it is enqueued under and
\* whether its request.json asks for a GPU (enqueue.py reads device.type).
GroupIds == {"g1", "g2"}
Priorities == {0, 1}
Request(run_id, group_id, requires_gpu) ==
    [run_id |-> run_id, group_id |-> group_id, requires_gpu |-> requires_gpu]
\* requests of the life-cycle specification
LifeRequests == {Request("r1", "g1", FALSE), Request("r4", Null, FALSE)}
\* requests of the scheduling specification
SchedRequests == {Request("r1", "g1", FALSE), Request("r2", "g1", FALSE),
                  Request("r2", Null, FALSE), Request("r3", "g2", TRUE),
                  Request("r4", Null, FALSE)}
PauseSets == {{}, {"g1"}}
ActiveStates == {"queued", "running"}

\* The daemon processes that contend for daemon.lock, the processes that
\* rewrite a state file and those that load it.
Daemons == {"d1", "d2", "d3"}
Writers == {"w1", "w2"}
Readers == {"l1"}
NoFile == 0
\* A document of a state file is the number of the write that produced it
\* (0: the one there at the start).  Missing: no file of that name;
\* DefaultState: the default-constructed state a load falls back to;
\* NoDocument: a temp file or a load result that does not exist yet.
Missing == 0 - 1
DefaultState == 0 - 2
NoDocument == 0 - 3

VARIABLES
    jobs,               \* queue.json: jobs[]
    last_served_group,  \* queue.json: last_served_group
    now,                \* the wall clock, in seconds
    job_counter,        \* QueueManager._job_counter of the current manager instance
    last                \* the latest QueueManager call: its arguments and result

VARIABLES
    lock_path,          \* the file the name daemon.lock refers to, NoFile if none
    files_made,         \* how many lock files were ever created
    lock_owner,         \* per file: the process whose handle locks byte 0, or Null
    lock_pid,           \* per file: its contents ("" or the pid written)
    lfd,                \* DaemonLock._fd of each process (a file, NoFile for None)
    lpc,                \* where each process is in acquire() / release()
    acquired,           \* what each process' latest acquire() returned, as text
    run_pc,             \* where each process is in ExecutionDaemon.run()
    exit_code           \* what run() returned in each process, Null before that

VARIABLES
    target,             \* the document in the state file, Missing if absent
    versions,           \* how many documents writers have produced
    wtmp,               \* per writer: the document in its temp file
    wpc,                \* where each writer is in _atomic_write
    wraised,            \* whether the writer's latest _atomic_write raised
    rpc,                \* where each reader is in load_queue
    loaded              \* what each reader's latest load returned

VARIABLES
    plan,               \* SweepPlan.parameters of the plan being expanded
    configs,            \* what expand_grid returned for it, once it has run
    group               \* group.json of a sweep group

VARIABLES
    heap,               \* the dict objects of the interpreter, by address
    base,               \* apply_overrides: the address of its base argument
    overrides,          \* apply_overrides: its overrides, in items() order
    result,             \* apply_overrides: the address it returned, NoObject if none
    apply_pc            \* "call" before apply_overrides ran, then "returned" or "raised"

VARIABLES
    gpu_cache,          \* lru_cache of detect_gpu: <<>> or the one GpuInfo it holds
    device_calls        \* history: the select_device calls of the process

VARIABLES
    group_files,        \* per group id: its group.json, <<>> if there is none
    pause_call          \* the latest GroupPauseManager call and what it returned

VARIABLES
    queue_settings      \* queue.json: max_parallel, gpu_slots

VARIABLES
    state,              \* SweepOrchestrator.state, the GroupState of a foreground sweep
    cancel_requested,   \* SweepOrchestrator._cancel_requested
    fail_fast,          \* SweepPlan.fail_fast
    futures,            \* execute: per run, where its future is
    submit_next,        \* execute: the index of the next run of the submit loop
    execute_pc,         \* where the main thread is in execute()
    execute_returned    \* what execute() returned, Null before that

VARIABLES
    cancel_view,        \* a cancel command: the QueueState it loaded, <<>> if none runs
    cancel_reported     \* history: the positions of the jobs a cancel reported canceled

VARIABLES
    completed,          \* _process_completed_jobs: its list `completed`, what is left of it
    reap_pc             \* _process_completed_jobs: where it is for the head of the list

VARIABLES
    plan_fields,        \* SweepPlan: the fields validate() reads, next to `plan`
    sweep_call          \* enqueue_sweep_command: where it is, and how it ended

VARIABLES
    enqueue_view,       \* an enqueue command: the QueueState it loaded, <<>> if none runs
    enqueue_returned,   \* history: the jobs that enqueue returned to its caller
    daemon_view         \* the daemon's dequeue_next: the QueueState it loaded, or <<>>

VARIABLES
    group_view,         \* per writer of group.json: the document it loaded, or <<>>
    pause_acked,        \* history: the value of the set_paused that returned True last
    agg_written         \* history: the run statuses the aggregator has written

VARIABLES
    max_parallel,       \* ExecutionDaemon.max_parallel
    gpu_slots,          \* ExecutionDaemon.gpu_slots
    active_jobs,        \* ExecutionDaemon._active_jobs, in insertion order
    active_gpu_jobs,    \* ExecutionDaemon._active_gpu_jobs
    orphans,            \* futures of the executor no longer in _active_jobs
    shutdown_requested, \* ExecutionDaemon._shutdown_requested
    dpc,                \* where the daemon's main thread is in run()
    slots_left,         \* _schedule_jobs: the iterations left of range(available_slots)
    paused_snapshot,    \* _schedule_jobs: its local paused_groups
    daemon_state,       \* daemon.json: state
    dispatched,         \* history: the positions in jobs of the jobs the daemon started
    hpc,                \* where the heartbeat thread is in _heartbeat_loop
    hb_state            \* _heartbeat_loop: the state of the DaemonState it built

qvars == <<jobs, last_served_group, now, job_counter, last>>
lockvars == <<lock_path, files_made, lock_owner, lock_pid, lfd, lpc, acquired, run_pc,
              exit_code>>
storevars == <<target, versions, wtmp, wpc, wraised, rpc, loaded>>
sweepvars == <<plan, configs, group>>
applyvars == <<heap, base, overrides, result, apply_pc>>
devicevars == <<gpu_cache, device_calls>>
pausevars == <<group_files, pause_call>>
settingsvars == <<queue_settings>>
executevars == <<state, cancel_requested, fail_fast, futures, submit_next, execute_pc,
                 execute_returned>>
cancelvars == <<cancel_view, cancel_reported>>
reapvars == <<completed, reap_pc>>
planvars == <<plan_fields, sweep_call>>
lostvars == <<enqueue_view, enqueue_returned, daemon_view>>
racevars == <<group_view, pause_acked, agg_written>>
stepvars == <<reapvars, planvars, lostvars, racevars>>
auxvars == <<applyvars, devicevars, pausevars, settingsvars, executevars, cancelvars,
             stepvars>>

\* GroupPauseManager.get_paused_groups: the groups whose group.json exists
\* and has a true "paused"
PausedGroups(files) ==
    {group_id \in DOMAIN files :
        files[group_id] # <<>> /\ files[group_id][1].paused = <<TRUE>>}
paused == PausedGroups(group_files)
filevars == <<storevars, sweepvars, auxvars>>
dvars == <<max_parallel, gpu_slots, active_jobs, active_gpu_jobs, orphans,
           shutdown_requested, dpc, slots_left, paused_snapshot,
           daemon_state, dispatched, hpc, hb_state>>
vars == <<qvars, lockvars, filevars, dvars>>

\* ------------------------------------------------------------ pure helpers
Range(s) == {s[i] : i \in DOMAIN s}

\* Python's list.sort(key=...) on two-component keys, here on a sequence of
\* [k1, k2, v] entries: tuples compare lexicographically, and the sort is
\* stable (an entry is inserted after every entry whose key is not greater).
KeyLessEq(a, b) == a.k1 < b.k1 \/ (a.k1 = b.k1 /\ a.k2 <= b.k2)

RECURSIVE InsertStable(_, _)
InsertStable(x, s) ==
    IF s = <<>> THEN <<x>>
    ELSE IF KeyLessEq(Head(s), x) THEN <<Head(s)>> \o InsertStable(x, Tail(s))
    ELSE <<x>> \o s

RECURSIVE StableSort(_)
StableSort(s) ==
    IF s = <<>> THEN <<>>
    ELSE InsertStable(s[Len(s)], StableSort(SubSeq(s, 1, Len(s) - 1)))

\* ------------------------------------------------------------------ Job ids
\* QueueManager._generate_job_id_unlocked, after the counter was incremented:
\* f"job_{timestamp}_{counter:04d}" with a timestamp of one-second resolution
JobId(counter, t) == <<t, counter>>

\* ------------------------------------------------------------------ enqueue
\* a duplicate test that forgets the running jobs
DuplicateRun_QueuedOnly(js, run_id) ==
    \E i \in DOMAIN js : js[i].run_id = run_id /\ js[i].state = "queued"

\* the duplicate test of enqueue
DuplicateRun(js, run_id) ==
    \E i \in DOMAIN js : js[i].run_id = run_id /\ js[i].state \in ActiveStates

NewJob(job_id, run_id, group_id, priority, requires_gpu, attempt, t) ==
    [job_id |-> job_id, run_id |-> run_id, group_id |-> group_id,
     priority |-> priority, requires_gpu |-> requires_gpu, state |-> "queued",
     attempt |-> attempt, created_at |-> t, started_at |-> Null,
     finished_at |-> Null, error |-> Null]

\* what a call leaves in `last`
Call(op, args, raised, ret, ok, count) ==
    [op |-> op, args |-> args, raised |-> raised, ret |-> ret, ok |-> ok, count |-> count]

NoArgs == [run_id |-> Null, group_id |-> Null, job_id |-> <<>>, paused |-> {}, gpu |-> 0]

\* a workspace with an empty queue.json and a manager just built
QueueInit ==
    /\ jobs = <<>>
    /\ last_served_group = Null
    /\ now = 0
    /\ job_counter = 0
    /\ last = Call("init", NoArgs, FALSE, <<>>, FALSE, 0)

\* no daemon.lock yet, and no process inside DaemonLock
LockInit ==
    /\ lock_path = NoFile
    /\ files_made = 0
    /\ lock_owner = [f \in 1..MaxFiles |-> Null]
    /\ lock_pid = [f \in 1..MaxFiles |-> ""]
    /\ lfd = [p \in Daemons |-> NoFile]
    /\ lpc = [p \in Daemons |-> "idle"]
    /\ acquired = [p \in Daemons |-> Null]
    /\ run_pc = [p \in Daemons |-> "idle"]
    /\ exit_code = [p \in Daemons |-> Null]

\* a state file holding document 0, and nobody writing or loading it
StoreInit ==
    /\ target = 0
    /\ versions = 0
    /\ wtmp = [w \in Writers |-> NoDocument]
    /\ wpc = [w \in Writers |-> "idle"]
    /\ wraised = [w \in Writers |-> FALSE]
    /\ rpc = [r \in Readers |-> "idle"]
    /\ loaded = [r \in Readers |-> NoDocument]

\* ExecutionDaemon.__init__(workspace, max_parallel, gpu_slots), at the top
\* of the main loop of run()
DaemonInit(mp, gs) ==
    /\ max_parallel = mp
    /\ gpu_slots = gs
    /\ active_jobs = <<>>
    /\ active_gpu_jobs = {}
    /\ orphans = [pending |-> 0, running |-> 0, gpu_pending |-> 0, gpu_running |-> 0]
    /\ shutdown_requested = FALSE
    /\ dpc = "loop"
    /\ slots_left = 0
    /\ paused_snapshot = {}
    /\ daemon_state = "running"
    /\ dispatched = {}
    /\ hpc = "loop"
    /\ hb_state = Null

\* ----------------------------------------------------- sweep: expand_grid
MaxParams == 2
MaxValues == 2
MaxRuns == 3
MaxMetric == 1

PathNames == <<"a", "b", "c", "d">>
Paths == {PathNames[i] : i \in 1..MaxParams}
ParamValues == 1..2

\* the `values` of a parameter: a JSON array, or one value that is no array
ValueLists == UNION {[1..n -> ParamValues] : n \in 0..MaxValues}

Params ==
    {[path |-> p, values |-> vs] : p \in Paths, vs \in ValueLists}
    \cup {[path |-> p, value |-> v] : p \in Paths, v \in ParamValues}

\* the parameters of a plan that validate() accepts, each path named once
Plans ==
    {ps \in UNION {[1..n -> Params] : n \in 1..MaxParams} :
        \A i, k \in DOMAIN ps : i # k => ps[i].path # ps[k].path}

\* expand_grid, `values if isinstance(values, list) else [values]`
ValuesOf(param) ==
    IF "values" \in DOMAIN param THEN param.values ELSE <<param.value>>

\* a product in which the first list varies fastest
ComboAt_FirstFastest(first, rest, k) ==
    <<first[((k - 1) % Len(first)) + 1]>> \o rest[((k - 1) \div Len(first)) + 1]

\* the k-th tuple of itertools.product(first, *others), `rest` being the
\* product of the others: the last list varies fastest
ComboAt(first, rest, k) ==
    <<first[((k - 1) \div Len(rest)) + 1]>> \o rest[((k - 1) % Len(rest)) + 1]

\* itertools.product(*param_values), as the sequence it yields
RECURSIVE Product(_)
Product(lists) ==
    IF lists = <<>>
    THEN << <<>> >>
    ELSE LET rest == Product(Tail(lists))
         IN [k \in 1..(Len(Head(lists)) * Len(rest)) |-> ComboAt(Head(lists), rest, k)]

\* the decimal digits of n
RECURSIVE Decimal(_)
Decimal(n) == IF n < 10 THEN <<n>> ELSE Decimal(n \div 10) \o <<n % 10>>

\* format(n, "04d"): the digits, with zeros in front up to `width` of them
RECURSIVE ZeroPad(_, _)
ZeroPad(digits, width) ==
    IF Len(digits) >= width THEN digits ELSE ZeroPad(<<0>> \o digits, width)

\* f"{timestamp_base}-sweep-{idx:04d}"
RunId(t, idx) == [ts |-> t, idx |-> ZeroPad(Decimal(idx), 4)]

\* expand_grid, the overrides dict filled from zip(param_paths, combo): a
\* later entry of a path replaces an earlier one
Overrides(paths, combo) ==
    [p \in Range(paths) |->
        combo[CHOOSE i \in DOMAIN paths :
                 paths[i] = p /\ \A k \in DOMAIN paths : paths[k] = p => k <= i]]

\* SweepOrchestrator.expand_grid() at time t
ExpandGrid(params, t) ==
    IF params = <<>>
    THEN <<>>
    ELSE LET param_paths == [i \in DOMAIN params |-> params[i].path]
             param_values == [i \in DOMAIN params |-> ValuesOf(params[i])]
             combos == Product(param_values)
         IN [k \in DOMAIN combos |->
               [run_id |-> RunId(t, k - 1), overrides |-> Overrides(param_paths, combos[k])]]

\* ------------------------------------------------- group.json of a sweep
Metric(v) == [name |-> "accuracy", value |-> v]

\* what the result.json of a succeeded run gives the aggregator: a primary
\* metric, or none
Metrics == {<<>>} \cup {<<Metric(v)>> : v \in 0..MaxMetric}

\* setup_group: group.json as the sweep writes it for the runs of these ids;
\* a value that can be null is <<>> for null and <<x>> for x
InitialGroup(run_ids) ==
    [status |-> "running",
     finished_at |-> Null,
     runs |-> [i \in DOMAIN run_ids |-> [run_id |-> run_ids[i], status |-> "pending",
                                         primary_metric |-> <<>>]],
     summary |-> [total |-> Len(run_ids), succeeded |-> 0, failed |-> 0, canceled |-> 0,
                  best_run_id |-> <<>>, best_primary_metric |-> <<>>]]

\* no plan is being expanded and the group has no runs
SweepInit ==
    /\ plan = <<>>
    /\ configs = [done |-> FALSE, runs |-> <<>>]
    /\ group = InitialGroup(<<>>)

\* ------------------------------------------------- sweep.py: apply_overrides
\* A request is a JSON object: a dict object on the heap whose values are
\* scalars or references to further dict objects. Keys and dotted paths are
\* strings, kept as sequences of characters so that split(".") is computed.
MaxOverrides == 2
NoObject == 0
Scalar(n) == [kind |-> "int", v |-> n]
Ref(address) == [kind |-> "dict", v |-> address]
EmptyDict == <<>>

KeyA == <<"a">>
KeyB == <<"b">>
KeyC == <<"c">>
KeyKeep == <<"k", "e", "e", "p">>

\* str.split("."): the pieces between the dots, empty pieces included
RECURSIVE Split(_)
Split(path) ==
    IF \A i \in DOMAIN path : path[i] # "."
    THEN <<path>>
    ELSE LET dot == CHOOSE i \in DOMAIN path :
                        path[i] = "." /\ \A j \in 1..(i - 1) : path[j] # "."
         IN  <<SubSeq(path, 1, dot - 1)>> \o Split(SubSeq(path, dot + 1, Len(path)))

\* d[key] = value and d.pop(key, None) on one dict object
Put(d, key, value) == [x \in (DOMAIN d) \cup {key} |-> IF x = key THEN value ELSE d[x]]
Pop(d, key) == [x \in (DOMAIN d) \ {key} |-> d[x]]

\* the dict objects reachable from the one at `address`
RECURSIVE Reachable(_, _)
Reachable(h, address) ==
    {address} \cup UNION {Reachable(h, h[address][key].v) :
                            key \in {k \in DOMAIN h[address] : h[address][k].kind = "dict"}}

\* copy.copy: one new dict object holding the same values
DeepCopy_Shallow(h, address) ==
    [heap |-> Append(h, h[address]), at |-> Len(h) + 1]

\* copy.deepcopy: a new dict object for every dict object reachable from
\* `address`, with every reference redirected to the new objects
DeepCopy(h, address) ==
    LET old == Reachable(h, address)
        Rank(x) == Cardinality({y \in old : y <= x})
        Old(j) == CHOOSE x \in old : Rank(x) = j
        Moved(value) == IF value.kind = "dict" THEN Ref(Len(h) + Rank(value.v)) ELSE value
    IN  [heap |-> h \o [j \in 1..Cardinality(old) |->
                            [key \in DOMAIN h[Old(j)] |-> Moved(h[Old(j)][key])]],
         at |-> Len(h) + Rank(address)]

\* the loop over parts[:-1]: a missing part becomes an empty dict, and
\* `current` moves to the value stored under the part, whatever it is
RECURSIVE Navigate(_, _, _)
Navigate(h, current, parts) ==
    IF parts = <<>> THEN [heap |-> h, current |-> current, raised |-> FALSE]
    ELSE IF current.kind # "dict" THEN [heap |-> h, current |-> current, raised |-> TRUE]
    ELSE LET part == Head(parts)
             d == h[current.v]
             h1 == IF part \in DOMAIN d THEN h
                   ELSE Append([h EXCEPT ![current.v] = Put(d, part, Ref(Len(h) + 1))],
                               EmptyDict)
         IN  Navigate(h1, h1[current.v][part], Tail(parts))

\* a None value leaves the key where it is
SetLeaf_NullIgnored(h, current, key, value) ==
    IF current.kind # "dict" THEN [heap |-> h, raised |-> TRUE]
    ELSE [heap |-> IF value = <<>> THEN h
                   ELSE [h EXCEPT ![current.v] = Put(h[current.v], key, Scalar(value[1]))],
          raised |-> FALSE]

\* current.pop(key, None) for a None value, current[key] = value otherwise;
\* both raise on a `current` that is not a dict
SetLeaf(h, current, key, value) ==
    IF current.kind # "dict" THEN [heap |-> h, raised |-> TRUE]
    ELSE [heap |-> [h EXCEPT ![current.v] =
                        IF value = <<>> THEN Pop(h[current.v], key)
                        ELSE Put(h[current.v], key, Scalar(value[1]))],
          raised |-> FALSE]

\* one iteration of the loop over overrides.items()
ApplyOne(h, root, path, value) ==
    LET parts == Split(path)
        nav == Navigate(h, Ref(root), SubSeq(parts, 1, Len(parts) - 1))
    IN  IF nav.raised THEN [heap |-> nav.heap, raised |-> TRUE]
        ELSE SetLeaf(nav.heap, nav.current, parts[Len(parts)], value)

RECURSIVE ApplyAll(_, _, _)
ApplyAll(h, root, items) ==
    IF items = <<>> THEN [heap |-> h, raised |-> FALSE]
    ELSE LET one == ApplyOne(h, root, Head(items).path, Head(items).value)
         IN  IF one.raised THEN one ELSE ApplyAll(one.heap, root, Tail(items))

\* apply_overrides(base, overrides): the heap afterwards, the address of the
\* returned dict, and whether an exception left the function instead
ApplyOverrides(h, address, items) ==
    LET copy == DeepCopy(h, address)
        done == ApplyAll(copy.heap, copy.at, items)
    IN  [heap |-> done.heap, result |-> IF done.raised THEN NoObject ELSE copy.at,
         raised |-> done.raised]

\* whether two dict objects hold the same JSON document
RECURSIVE SameDoc(_, _, _, _)
SameDoc(h1, a1, h2, a2) ==
    /\ DOMAIN h1[a1] = DOMAIN h2[a2]
    /\ \A key \in DOMAIN h1[a1] :
        /\ h1[a1][key].kind = h2[a2][key].kind
        /\ IF h1[a1][key].kind = "dict"
           THEN SameDoc(h1, h1[a1][key].v, h2, h2[a2][key].v)
           ELSE h1[a1][key].v = h2[a2][key].v

\* the base requests: a is absent or a scalar; b is absent, a scalar or a
\* mapping whose keys c and keep are each absent or a scalar
Restrict(d, keys) == [key \in keys |-> d[key]]
BaseHeaps ==
    {<<Restrict([x \in {KeyA, KeyB} |-> IF x = KeyA THEN Scalar(0) ELSE Scalar(5)], top)>> :
        top \in SUBSET {KeyA, KeyB}}
    \cup
    {<<Restrict([x \in {KeyA, KeyB} |-> IF x = KeyA THEN Scalar(0) ELSE Ref(2)], top \cup {KeyB}),
       Restrict([x \in {KeyC, KeyKeep} |-> IF x = KeyC THEN Scalar(7) ELSE Scalar(1)], inner)>> :
        top \in SUBSET {KeyA}, inner \in SUBSET {KeyC, KeyKeep}}

OverridePaths ==
    {KeyA, KeyB, <<"b", ".", "c">>, <<"b", ".", "k", "e", "e", "p">>,
     <<"a", ".", "c">>, <<"c", ".", "a">>}
OverrideValues == {<<>>, <<9>>}
OverrideItems == [path : OverridePaths, value : OverrideValues]
\* a dict of overrides in items() order: no path twice
OverrideLists ==
    UNION {{items \in [1..n -> OverrideItems] :
                \A i, j \in 1..n : i # j => items[i].path # items[j].path} :
           n \in 0..MaxOverrides}

\* no apply_overrides call is under way
ApplyInit ==
    /\ heap = <<>>
    /\ base = NoObject
    /\ overrides = <<>>
    /\ result = NoObject
    /\ apply_pc = "idle"

\* --------------------------------------------------------------- gpu.py
MaxCalls == 2
MaxDevices == 2
GPU_REASON_NO_GPU == "no_gpu_detected"
GPU_REASON_SLOT_UNAVAILABLE == "gpu_slot_unavailable"
GPU_REASON_USER_REQUESTED_CPU == "user_requested_cpu"

\* what detect_gpu can return: PyTorch or nvidia-smi found devices, or neither did
GpuInfos ==
    [available : {TRUE}, device_count : 1..MaxDevices,
     detection_method : {"pytorch", "nvidia-smi"}]
    \cup {[available |-> FALSE, device_count |-> 0, detection_method |-> "none"]}

\* select_device(requested, gpu_slot_granted), given what detect_gpu() returned
SelectDevice(requested, gpu_slot_granted, info) ==
    IF requested = "cpu"
    THEN [device |-> "cpu",
          reason |-> IF info.available THEN GPU_REASON_USER_REQUESTED_CPU ELSE Null]
    ELSE IF ~info.available THEN [device |-> "cpu", reason |-> GPU_REASON_NO_GPU]
    ELSE IF ~gpu_slot_granted THEN [device |-> "cpu", reason |-> GPU_REASON_SLOT_UNAVAILABLE]
    ELSE [device |-> "gpu", reason |-> Null]

\* nothing detected yet, no select_device call yet
DeviceInit ==
    /\ gpu_cache = <<>>
    /\ device_calls = <<>>

\* ------------------------------------------------ queue.py: GroupPauseManager
\* group.json as GroupPauseManager sees it: the "paused" key, absent (<<>>)
\* or a boolean, next to the fields it does not interpret
GroupDocs == [name : {"sweep"}, status : {"running", "completed"},
              paused : {<<>>, <<FALSE>>, <<TRUE>>}]
NoPauseCall == [op |-> "none", group_id |-> Null, value |-> FALSE, returned |-> FALSE,
                groups |-> {}]

\* is_paused(group_id): False when group.json is missing
IsPaused(files, group_id) ==
    files[group_id] # <<>> /\ files[group_id][1].paused = <<TRUE>>

\* the document is written anew with only the flag
SetPaused_DropsOtherFields(files, group_id, value) ==
    IF files[group_id] = <<>> THEN [files |-> files, returned |-> FALSE]
    ELSE [files |-> [files EXCEPT ![group_id] =
                        <<[name |-> "", status |-> "", paused |-> <<value>>]>>],
          returned |-> TRUE]

\* set_paused(group_id, paused): False when group.json is missing; else
\* load the document, data["paused"] = paused, write it back, True
SetPaused(files, group_id, value) ==
    IF files[group_id] = <<>> THEN [files |-> files, returned |-> FALSE]
    ELSE [files |-> [files EXCEPT ![group_id] = <<[@[1] EXCEPT !.paused = <<value>>]>>],
          returned |-> TRUE]

\* every group has a group.json that no pause command has touched
PauseInit ==
    /\ group_files = [group_id \in GroupIds |->
                        <<[name |-> "sweep", status |-> "running", paused |-> <<>>]>>]
    /\ pause_call = NoPauseCall

\* ------------------------------------------------- queue.py: the settings
MaxSetting == 2
SettingChoices == 0..MaxSetting

\* QueueState(): the settings of a queue.json no daemon has written
SettingsInit == queue_settings = [max_parallel |-> 2, gpu_slots |-> 1]

\* ------------------------------------------- sweep.py: SweepOrchestrator.execute
SUCCESS == 0
CANCELED == 5

\* setup_group: the GroupState of a sweep of n runs
InitialState(n) ==
    [status |-> "running", cancelled |-> FALSE, finished_at |-> Null,
     runs |-> [i \in 1..n |-> [run_id |-> RunId(0, i - 1), status |-> "pending",
                               primary_metric |-> <<>>]],
     succeeded |-> 0, failed |-> 0, canceled |-> 0,
     best_run_id |-> <<>>, best_metric_value |-> <<>>]

\* update_run_result(result): the entry of the run, the counters, the best run
UpdateRunResult(st, i, status, pm) ==
    LET entry == [st.runs[i] EXCEPT !.status = status,
                                    !.primary_metric = IF pm # <<>> THEN pm ELSE @]
        better == /\ status = "succeeded"
                  /\ pm # <<>>
                  /\ (st.best_metric_value = <<>> \/ pm[1].value > st.best_metric_value[1])
    IN  [st EXCEPT !.runs[i] = entry,
                   !.succeeded = IF status = "succeeded" THEN @ + 1 ELSE @,
                   !.failed = IF status = "failed" THEN @ + 1 ELSE @,
                   !.canceled = IF status = "canceled" THEN @ + 1 ELSE @,
                   !.best_run_id = IF better THEN <<entry.run_id>> ELSE @,
                   !.best_metric_value = IF better THEN <<pm[1].value>> ELSE @]

\* how many runs of the state have the status
CountRuns(st, status) == Cardinality({i \in DOMAIN st.runs : st.runs[i].status = status})

\* the final status looks at the failures before the cancellation
Finalize_FailedFirst(st, cancel, t) ==
    LET pending == CountRuns(st, "pending")
        failed == st.failed
    IN  [st EXCEPT !.finished_at = t,
                   !.runs = [i \in DOMAIN st.runs |->
                                IF st.runs[i].status = "pending"
                                THEN [st.runs[i] EXCEPT !.status = "canceled"]
                                ELSE st.runs[i]],
                   !.canceled = @ + pending,
                   !.status = IF failed > 0 THEN "failed"
                              ELSE IF cancel THEN "canceled" ELSE "completed",
                   !.cancelled = IF failed > 0 THEN @ ELSE cancel \/ @]

\* execute, "Finalize state": finished_at, every pending run canceled and
\* counted, the final status
Finalize(st, cancel, t) ==
    LET pending == CountRuns(st, "pending")
        failed == st.failed
    IN  [st EXCEPT !.finished_at = t,
                   !.runs = [i \in DOMAIN st.runs |->
                                IF st.runs[i].status = "pending"
                                THEN [st.runs[i] EXCEPT !.status = "canceled"]
                                ELSE st.runs[i]],
                   !.canceled = @ + pending,
                   !.status = IF cancel THEN "canceled"
                              ELSE IF failed > 0 THEN "failed" ELSE "completed",
                   !.cancelled = IF cancel THEN TRUE ELSE @]

\* a future of the executor: not submitted ("none"), "running", "done" with
\* the RunResult it holds, or "processed" by the as_completed loop
Future(at, status, pm) == [at |-> at, status |-> status, pm |-> pm]

\* no foreground sweep runs
ExecuteInit ==
    /\ state = InitialState(0)
    /\ cancel_requested = FALSE
    /\ fail_fast = FALSE
    /\ futures = <<>>
    /\ submit_next = 1
    /\ execute_pc = "idle"
    /\ execute_returned = Null

\* no cancel command runs, none has reported a job
CancelInit ==
    /\ cancel_view = <<>>
    /\ cancel_reported = {}

\* _process_completed_jobs is not running
ReapInit ==
    /\ completed = <<>>
    /\ reap_pc = "idle"

\* SweepPlan.load of a document that has only the defaults of load
PlanInit ==
    /\ plan_fields = [version |-> 0, kind |-> "", workspace |-> "", base_request |-> FALSE,
                      strategy_type |-> "grid", max_parallel |-> 1]
    /\ sweep_call = [pc |-> "idle", errors |-> <<>>, returned |-> <<>>, raised |-> FALSE]

\* no call of the queue manager is between its load_queue and its save_queue
LostInit ==
    /\ enqueue_view = <<>>
    /\ enqueue_returned = {}
    /\ daemon_view = <<>>

\* the processes that rewrite a group.json: a pause / resume command, the
\* daemon (its aggregator) and enqueue_sweep_command
GroupWriters == {"pause", "daemon", "enqueue"}

\* no writer of group.json is between its json.load and its rename
RaceInit ==
    /\ group_view = [w \in GroupWriters |-> <<>>]
    /\ pause_acked = <<>>
    /\ agg_written = {}

StepInit == ReapInit /\ PlanInit /\ LostInit /\ RaceInit

AuxInit ==
    /\ ApplyInit /\ DeviceInit /\ PauseInit /\ SettingsInit /\ ExecuteInit /\ CancelInit
    /\ StepInit

Init == QueueInit /\ LockInit /\ StoreInit /\ SweepInit /\ AuxInit /\ DaemonInit(2, 1)

\* the clock advances between calls
Tick ==
    /\ now < MaxTime
    /\ now' = now + 1
    /\ UNCHANGED <<jobs, last_served_group, job_counter, last, lockvars, filevars, dvars>>

\* QueueManager.__init__: every command process builds its own manager,
\* whose counter starts at 0
NewManager ==
    /\ job_counter # 0
    /\ job_counter' = 0
    /\ UNCHANGED <<jobs, last_served_group, now, last, lockvars, filevars, dvars>>

\* QueueManager.enqueue(run_id, group_id, priority, requires_gpu) on the queue
\* `js`, by a manager whose counter is `counter`, at time t: whether it raised,
\* and the jobs, the counter and the job returned
EnqueueResult(js, counter, t, run_id, group_id, priority, requires_gpu) ==
    IF DuplicateRun(js, run_id)
    THEN [raised |-> TRUE, jobs |-> js, counter |-> counter, ret |-> <<>>]
    ELSE LET job == NewJob(JobId(counter + 1, t), run_id, group_id, priority,
                           requires_gpu, 1, t)
         IN [raised |-> FALSE, jobs |-> Append(js, job), counter |-> counter + 1,
             ret |-> <<job>>]

enqueue(run_id, group_id, priority, requires_gpu) ==
    LET args == [NoArgs EXCEPT !.run_id = run_id, !.group_id = group_id]
        res == EnqueueResult(jobs, job_counter, now, run_id, group_id, priority,
                             requires_gpu)
    IN /\ Len(res.jobs) <= MaxJobs
       /\ jobs' = res.jobs
       /\ job_counter' = res.counter
       /\ last' = Call("enqueue", args, res.raised, res.ret, ~res.raised, 0)
       /\ UNCHANGED <<last_served_group, now, lockvars, filevars, dvars>>

\* ------------------------------------------------------------- dequeue_next
\* the group key of dequeue_next: None (or an empty id) is "__ungrouped__"
GroupKey(job) == IF job.group_id = Null \/ job.group_id = "" THEN UNGROUPED ELSE job.group_id

\* a filter that forgets the pause set
QueuedUnpaused_IgnorePause(job, paused_groups) ==
    job.state = "queued"

\* "j.state == 'queued' and (j.group_id is None or j.group_id not in paused_groups)"
QueuedUnpaused(job, paused_groups) ==
    /\ job.state = "queued"
    /\ (job.group_id = Null \/ job.group_id \notin paused_groups)

\* an eligibility that forgets the GPU budget
GpuEligible_Always(job, gpu_slots_available) ==
    TRUE

\* the GPU clause of eligibility: a job that requires a GPU needs a free slot
GpuEligible(job, gpu_slots_available) ==
    ~job.requires_gpu \/ gpu_slots_available > 0

Eligible(job, paused_groups, gpu_slots_available) ==
    /\ QueuedUnpaused(job, paused_groups)
    /\ GpuEligible(job, gpu_slots_available)

\* the indices, in list order, of the eligible jobs
RECURSIVE QueuedIndices(_, _, _, _)
QueuedIndices(js, i, paused_groups, gpu) ==
    IF i > Len(js) THEN <<>>
    ELSE (IF Eligible(js[i], paused_groups, gpu) THEN <<i>> ELSE <<>>)
         \o QueuedIndices(js, i + 1, paused_groups, gpu)

\* the keys of the `groups` dict in insertion order (first appearance)
RECURSIVE GroupOrder(_, _)
GroupOrder(js, idx) ==
    IF idx = <<>> THEN <<>>
    ELSE LET rest == GroupOrder(js, SubSeq(idx, 1, Len(idx) - 1))
             k == GroupKey(js[idx[Len(idx)]])
         IN IF k \in Range(rest) THEN rest ELSE Append(rest, k)

\* a sort key that forgets the priority
PriorityKey_FifoOnly(js, i) == [k1 |-> 0, k2 |-> js[i].created_at, v |-> i]

\* groups[gid].sort(key=lambda j: (-j.priority, j.created_at))
PriorityKey(js, i) == [k1 |-> 0 - js[i].priority, k2 |-> js[i].created_at, v |-> i]

SortedGroup(js, idx, gid) ==
    LET members == SelectSeq(idx, LAMBDA i : GroupKey(js[i]) = gid)
    IN StableSort([n \in DOMAIN members |-> PriorityKey(js, members[n])])

\* candidates: (gid, head of the sorted group), in dict order
Candidates(js, idx) ==
    LET order == GroupOrder(js, idx)
    IN [n \in DOMAIN order |-> [gid |-> order[n], i |-> SortedGroup(js, idx, order[n])[1].v]]

\* x.sort(key=lambda x: x[1].created_at); x[0]
EarliestCreated(js, cands) ==
    StableSort([n \in DOMAIN cands |->
                  [k1 |-> js[cands[n].i].created_at, k2 |-> 0, v |-> cands[n]]])[1].v

\* a choice that forgets the round-robin cursor
SelectCandidate_NoRoundRobin(js, cands, last_served) ==
    StableSort([n \in DOMAIN cands |->
                  [k1 |-> js[cands[n].i].created_at, k2 |-> 0, v |-> cands[n]]])[1].v

\* the round-robin choice among the candidates
SelectCandidate(js, cands, last_served) ==
    IF last_served # Null /\ last_served # "" /\ Len(cands) > 1
    THEN LET others == SelectSeq(cands, LAMBDA c : c.gid # last_served)
         IN IF others # <<>> THEN EarliestCreated(js, others)
            ELSE EarliestCreated(js, cands)
    ELSE EarliestCreated(js, cands)

\* "for job in state.jobs: if job.job_id == selected.job_id: ...; break"
FirstWithId(js, job_id) ==
    IF \E i \in DOMAIN js : js[i].job_id = job_id
    THEN CHOOSE i \in DOMAIN js :
            js[i].job_id = job_id /\ \A k \in 1..(i - 1) : js[k].job_id # job_id
    ELSE 0

\* QueueManager.dequeue_next(paused_groups, gpu_slots_available) on the queue
\* (js, last_served): the jobs, the cursor and the job returned (<<>> for None)
DequeueResult(js, last_served, paused_groups, gpu) ==
    LET idx == QueuedIndices(js, 1, paused_groups, gpu)
    IN IF idx = <<>>
       THEN [jobs |-> js, last_served_group |-> last_served, ret |-> <<>>, index |-> 0]
       ELSE LET sel == SelectCandidate(js, Candidates(js, idx), last_served)
                k == FirstWithId(js, js[sel.i].job_id)
                marked == [js EXCEPT ![k].state = "running", ![k].started_at = Stamp]
            IN \* `selected` is the list's own object: it shows the mark only
               \* when it is the job the loop found
               [jobs |-> marked, last_served_group |-> sel.gid, ret |-> <<marked[sel.i]>>,
                index |-> sel.i]

dequeue_next(paused_groups, gpu) ==
    LET args == [NoArgs EXCEPT !.paused = paused_groups, !.gpu = gpu]
        res == DequeueResult(jobs, last_served_group, paused_groups, gpu)
    IN /\ jobs' = res.jobs
       /\ last_served_group' = res.last_served_group
       /\ last' = Call("dequeue_next", args, FALSE, res.ret, res.ret # <<>>, 0)
       /\ UNCHANGED <<now, job_counter, lockvars, filevars, dvars>>

\* ------------------------------------------------- complete, cancel, retry
\* QueueManager.complete_job(job_id, success, error): the jobs afterwards
CompleteResult(js, job_id, success, error) ==
    LET k == FirstWithId(js, job_id)
    IN IF k = 0 THEN js
       ELSE [js EXCEPT ![k].state = IF success THEN "succeeded" ELSE "failed",
                       ![k].finished_at = Stamp,
                       ![k].error = error]

complete_job(job_id, success, error) ==
    /\ jobs' = CompleteResult(jobs, job_id, success, error)
    /\ last' = Call("complete_job", [NoArgs EXCEPT !.job_id = job_id], FALSE, <<>>,
                    success, 0)
    /\ UNCHANGED <<last_served_group, now, job_counter, lockvars, filevars, dvars>>

\* QueueManager.cancel_job(job_id): the jobs afterwards and the value returned
CancelJobResult(js, job_id) ==
    LET k == FirstWithId(js, job_id)
    IN IF k # 0 /\ js[k].state = "queued"
       THEN [jobs |-> [js EXCEPT ![k].state = "canceled", ![k].finished_at = Stamp],
             ok |-> TRUE]
       ELSE [jobs |-> js, ok |-> FALSE]

cancel_job(job_id) ==
    LET res == CancelJobResult(jobs, job_id)
    IN /\ jobs' = res.jobs
       /\ last' = Call("cancel_job", [NoArgs EXCEPT !.job_id = job_id], FALSE, <<>>,
                       res.ok, 0)
       /\ UNCHANGED <<last_served_group, now, job_counter, lockvars, filevars, dvars>>

\* a cancel_group that cancels the running jobs of the group as well
CancelGroupResult_AlsoRunning(js, group_id) ==
    LET hit == {i \in DOMAIN js : js[i].group_id = group_id
                                    /\ js[i].state \in {"queued", "running"}}
    IN [jobs |-> [i \in DOMAIN js |->
                    IF i \in hit
                    THEN [js[i] EXCEPT !.state = "canceled", !.finished_at = Stamp]
                    ELSE js[i]],
        count |-> Cardinality(hit)]

\* QueueManager.cancel_group(group_id): the jobs afterwards and the count
CancelGroupResult(js, group_id) ==
    LET hit == {i \in DOMAIN js : js[i].group_id = group_id /\ js[i].state = "queued"}
    IN [jobs |-> [i \in DOMAIN js |->
                    IF i \in hit
                    THEN [js[i] EXCEPT !.state = "canceled", !.finished_at = Stamp]
                    ELSE js[i]],
        count |-> Cardinality(hit)]

cancel_group(group_id) ==
    LET res == CancelGroupResult(jobs, group_id)
    IN /\ jobs' = res.jobs
       /\ last' = Call("cancel_group", [NoArgs EXCEPT !.group_id = group_id], FALSE,
                       <<>>, res.count > 0, res.count)
       /\ UNCHANGED <<last_served_group, now, job_counter, lockvars, filevars, dvars>>

\* the jobs retry_failed re-enqueues, in list order
FailedOfGroup(js, group_id) ==
    SelectSeq(js, LAMBDA j : j.group_id = group_id /\ j.state = "failed")

\* QueueManager.retry_failed(group_id): the jobs, the counter and the new jobs
RetryResult(js, counter, t, group_id) ==
    LET failed == FailedOfGroup(js, group_id)
        new_jobs == [n \in DOMAIN failed |->
                       NewJob(JobId(counter + n, t), failed[n].run_id,
                              failed[n].group_id, failed[n].priority,
                              failed[n].requires_gpu, failed[n].attempt + 1, t)]
    IN [jobs |-> js \o new_jobs, counter |-> counter + Len(failed), ret |-> new_jobs]

retry_failed(group_id) ==
    LET res == RetryResult(jobs, job_counter, now, group_id)
    IN /\ Len(res.jobs) <= MaxJobs
       /\ \A n \in DOMAIN res.ret : res.ret[n].attempt <= MaxAttempt
       /\ jobs' = res.jobs
       /\ job_counter' = res.counter
       /\ last' = Call("retry_failed", [NoArgs EXCEPT !.group_id = group_id], FALSE,
                       res.ret, res.ret # <<>>, Len(res.ret))
       /\ UNCHANGED <<last_served_group, now, lockvars, filevars, dvars>>

\* the job ids a caller may name: those of the queue, and one of no job
UnknownId == <<0, 0>>
KnownIds == {jobs[i].job_id : i \in DOMAIN jobs} \cup {UnknownId}

Next ==
    \/ NewManager
    \/ \E q \in LifeRequests : enqueue(q.run_id, q.group_id, 0, q.requires_gpu)
    \/ dequeue_next({}, 1)
    \/ \E id \in KnownIds : complete_job(id, TRUE, Null)
    \/ \E id \in KnownIds : complete_job(id, FALSE, "err")
    \/ \E id \in KnownIds : cancel_job(id)
    \/ \E g \in GroupIds : cancel_group(g)
    \/ \E g \in GroupIds : retry_failed(g)

Spec == Init /\ [][Next]_vars

\* Scheduling: jobs of several groups, priorities and devices are enqueued over
\* time and dequeued under pause sets and GPU budgets.
SchedNext ==
    \/ Tick
    \/ \E q \in SchedRequests, p \in Priorities :
          enqueue(q.run_id, q.group_id, p, q.requires_gpu)
    \/ \E P \in PauseSets, gpu \in 0..1 : dequeue_next(P, gpu)

SchedSpec == Init /\ [][SchedNext]_vars

\* ---------------------------------------------------------------- DaemonLock
\* daemon.lock under the file semantics of the platform acquire() asks for
\* (it imports msvcrt): a byte-range lock belongs to the handle that took it
\* and ends when that handle is closed or its process dies, and a file that
\* some handle has open cannot be unlinked.

\* the offset of a process' handle: 0 from os.open until the pid is written
FilePos(p) == IF lpc[p] \in {"opened", "locked"} THEN 0 ELSE 1

HasOpenHandle(f) == \E q \in Daemons : lfd[q] = f

\* the locks left when process p gives up the lock it has on byte `pos`
Unlocked(p, pos) ==
    [f \in DOMAIN lock_owner |->
        IF lock_owner[f] = p /\ lfd[p] = f /\ pos = 0 THEN Null ELSE lock_owner[f]]

\* a locking call that is granted whoever holds the byte
LockGranted_Always(f) == TRUE

\* msvcrt.locking(fd, LK_NBLCK, 1): granted iff no handle has byte 0 locked
LockGranted(f) == lock_owner[f] = Null

\* DaemonLock.acquire, os.open(lock_file, O_RDWR | O_CREAT): the file of that
\* name, created empty when there is none
lock_open(p) ==
    /\ lpc[p] = "idle"
    /\ IF lock_path = NoFile
       THEN /\ files_made < MaxFiles
            /\ files_made' = files_made + 1
            /\ lock_path' = files_made + 1
            /\ lfd' = [lfd EXCEPT ![p] = files_made + 1]
       ELSE /\ lfd' = [lfd EXCEPT ![p] = lock_path]
            /\ UNCHANGED <<lock_path, files_made>>
    /\ lpc' = [lpc EXCEPT ![p] = "opened"]
    /\ acquired' = [acquired EXCEPT ![p] = Null]
    /\ UNCHANGED <<lock_owner, lock_pid, run_pc, exit_code, qvars,
                   filevars, dvars>>

\* DaemonLock.acquire, the locking call: on OSError the handle is closed and
\* acquire returns False
lock_try(p) ==
    /\ lpc[p] = "opened"
    /\ IF LockGranted(lfd[p])
       THEN /\ lock_owner' = [lock_owner EXCEPT ![lfd[p]] = p]
            /\ lpc' = [lpc EXCEPT ![p] = "locked"]
            /\ UNCHANGED <<lfd, acquired>>
       ELSE /\ lfd' = [lfd EXCEPT ![p] = NoFile]
            /\ lpc' = [lpc EXCEPT ![p] = "idle"]
            /\ acquired' = [acquired EXCEPT ![p] = "False"]
            /\ UNCHANGED lock_owner
    /\ UNCHANGED <<lock_path, files_made, lock_pid, run_pc, exit_code, qvars,
                   filevars, dvars>>

\* DaemonLock.acquire, lseek + ftruncate + write of the pid, and return True
lock_write_pid(p) ==
    /\ lpc[p] = "locked"
    /\ lock_pid' = [lock_pid EXCEPT ![lfd[p]] = p]
    /\ lpc' = [lpc EXCEPT ![p] = "held"]
    /\ acquired' = [acquired EXCEPT ![p] = "True"]
    /\ UNCHANGED <<lock_path, files_made, lock_owner, lfd, run_pc, exit_code, qvars,
                   filevars, dvars>>

\* DaemonLock.release, locking(fd, LK_UNLCK, 1): it names the byte at the
\* handle's offset; when that byte is not locked the call fails and the
\* exception is swallowed
lock_unlock(p) ==
    /\ lpc[p] = "held"
    /\ lock_owner' = Unlocked(p, FilePos(p))
    /\ lpc' = [lpc EXCEPT ![p] = "unlocked"]
    /\ UNCHANGED <<lock_path, files_made, lock_pid, lfd, acquired, run_pc, exit_code, qvars,
                   filevars,
                   dvars>>

\* DaemonLock.release, os.close(fd): closing the handle ends its locks
lock_close(p) ==
    /\ lpc[p] = "unlocked"
    /\ lock_owner' = Unlocked(p, 0)
    /\ lfd' = [lfd EXCEPT ![p] = NoFile]
    /\ lpc' = [lpc EXCEPT ![p] = "closed"]
    /\ UNCHANGED <<lock_path, files_made, lock_pid, acquired, run_pc, exit_code, qvars,
                   filevars, dvars>>

\* DaemonLock.release, lock_file.unlink(): it fails, and the failure is
\* swallowed, when the name is gone or another process has the file open
lock_unlink(p) ==
    /\ lpc[p] = "closed"
    /\ lock_path' = IF lock_path # NoFile /\ ~HasOpenHandle(lock_path)
                    THEN NoFile ELSE lock_path
    /\ lpc' = [lpc EXCEPT ![p] = "idle"]
    /\ UNCHANGED <<files_made, lock_owner, lock_pid, lfd, acquired, run_pc, exit_code, qvars,
                   filevars,
                   dvars>>

\* a process dies inside acquire(), while it holds the lock or inside
\* release(): its handle is closed with it and the file stays
lock_crash(p) ==
    /\ lpc[p] # "idle"
    /\ lock_owner' = Unlocked(p, 0)
    /\ lfd' = [lfd EXCEPT ![p] = NoFile]
    /\ lpc' = [lpc EXCEPT ![p] = "idle"]
    /\ acquired' = [acquired EXCEPT ![p] = Null]
    /\ UNCHANGED <<lock_path, files_made, lock_pid, run_pc, exit_code, qvars,
                   filevars, dvars>>

LockNext ==
    \E p \in Daemons :
        \/ lock_open(p)
        \/ lock_try(p)
        \/ lock_write_pid(p)
        \/ lock_unlock(p)
        \/ lock_close(p)
        \/ lock_unlink(p)
        \/ lock_crash(p)

LockSpec == Init /\ [][LockNext]_vars

\* ---------------------------------------------------------- _atomic_write
\* One state file (queue.json, daemon.json or a group.json: the three are
\* rewritten by the same steps), the processes rewriting it and a process
\* loading it.

\* _atomic_write, mkstemp + json.dump into the temp file
write_temp(w) ==
    /\ wpc[w] = "idle"
    /\ versions < MaxVersions
    /\ versions' = versions + 1
    /\ wtmp' = [wtmp EXCEPT ![w] = versions + 1]
    /\ wpc' = [wpc EXCEPT ![w] = "written"]
    /\ wraised' = [wraised EXCEPT ![w] = FALSE]
    /\ UNCHANGED <<target, rpc, loaded, sweepvars, auxvars, qvars, lockvars,
                   dvars>>

\* _atomic_write, `if path.exists()`
write_exists(w) ==
    /\ wpc[w] = "written"
    /\ wpc' = [wpc EXCEPT ![w] = IF target # Missing THEN "unlink" ELSE "rename"]
    /\ UNCHANGED <<target, versions, wtmp, wraised, rpc, loaded, sweepvars, auxvars, qvars, lockvars,
                   dvars>>

\* _atomic_write, the except clause: the temp file is removed, the error raised
WriteFails(w) ==
    /\ wtmp' = [wtmp EXCEPT ![w] = NoDocument]
    /\ wraised' = [wraised EXCEPT ![w] = TRUE]
    /\ wpc' = [wpc EXCEPT ![w] = "idle"]
    /\ UNCHANGED target

\* _atomic_write, path.unlink(): FileNotFoundError when the file has gone
write_unlink(w) ==
    /\ wpc[w] = "unlink"
    /\ IF target # Missing
       THEN /\ target' = Missing
            /\ wpc' = [wpc EXCEPT ![w] = "rename"]
            /\ UNCHANGED <<wtmp, wraised>>
       ELSE WriteFails(w)
    /\ UNCHANGED <<versions, rpc, loaded, sweepvars, auxvars, qvars, lockvars,
                   dvars>>

\* _atomic_write, Path(temp_path).rename(path): when another writer has put
\* a file there, os.rename replaces it or raises FileExistsError, by platform
write_rename(w) ==
    /\ wpc[w] = "rename"
    /\ \/ /\ target' = wtmp[w]
          /\ wtmp' = [wtmp EXCEPT ![w] = NoDocument]
          /\ wpc' = [wpc EXCEPT ![w] = "idle"]
          /\ UNCHANGED wraised
       \/ /\ target # Missing
          /\ WriteFails(w)
    /\ UNCHANGED <<versions, rpc, loaded, sweepvars, auxvars, qvars, lockvars,
                   dvars>>

\* load_queue / load_daemon, `if not file.exists(): return <default>`
load_exists(r) ==
    /\ rpc[r] = "idle"
    /\ IF target = Missing
       THEN /\ loaded' = [loaded EXCEPT ![r] = DefaultState]
            /\ UNCHANGED rpc
       ELSE /\ loaded' = [loaded EXCEPT ![r] = NoDocument]
            /\ rpc' = [rpc EXCEPT ![r] = "open"]
    /\ UNCHANGED <<target, versions, wtmp, wpc, wraised, sweepvars, auxvars, qvars, lockvars,
                   dvars>>

\* load_queue / load_daemon, open + json.load: any exception gives the default
load_read(r) ==
    /\ rpc[r] = "open"
    /\ loaded' = [loaded EXCEPT ![r] = IF target = Missing THEN DefaultState ELSE target]
    /\ rpc' = [rpc EXCEPT ![r] = "idle"]
    /\ UNCHANGED <<target, versions, wtmp, wpc, wraised, sweepvars, auxvars, qvars, lockvars,
                   dvars>>

StoreNext ==
    \/ \E w \in Writers : write_temp(w) \/ write_exists(w) \/ write_unlink(w)
                            \/ write_rename(w)
    \/ \E r \in Readers : load_exists(r) \/ load_read(r)

StoreSpec == Init /\ [][StoreNext]_vars

\* ----------------------------------------------------------- ExecutionDaemon
\* One daemon (the holder of daemon.lock) in the main loop of run(), the
\* futures of its executor, and the command processes that change queue.json
\* and the pause flags meanwhile.  A future is "pending" (no worker thread is
\* free), "running" (its child process runs), "ok" or "fail" (done).
DaemonRequests == {Request("r1", "g1", FALSE), Request("r3", "g2", TRUE),
                   Request("r4", Null, TRUE)}
ParallelChoices == {1, 2}
GpuSlotChoices == {0, 1}
DoneFutures == {"ok", "fail"}

ActiveIds == {active_jobs[i].job_id : i \in DOMAIN active_jobs}

\* the position of a job id in _active_jobs, 0 if it is not a key
ActiveIndex(job_id) ==
    IF \E i \in DOMAIN active_jobs : active_jobs[i].job_id = job_id
    THEN CHOOSE i \in DOMAIN active_jobs : active_jobs[i].job_id = job_id
    ELSE 0

\* the worker threads of ThreadPoolExecutor(max_workers = max_parallel) in use
RunningChildren ==
    Cardinality({i \in DOMAIN active_jobs : active_jobs[i].fut = "running"})
        + orphans.running

\* a scheduler that counts every slot as free
AvailableSlots_IgnoreActive(n) == max_parallel

\* _schedule_jobs: available_slots = self.max_parallel - len(self._active_jobs)
AvailableSlots(n) == max_parallel - n

\* _schedule_jobs, inside the loop:
\* gpu_slots_available = self.gpu_slots - len(self._active_gpu_jobs)
GpuSlotsAvailable(gpu_jobs) == gpu_slots - Cardinality(gpu_jobs)

\* _process_completed_jobs on the queue `js`: complete_job for every future
\* of `act` that is done, in the order of the dict
RECURSIVE ReapAll(_, _)
ReapAll(js, act) ==
    IF act = <<>> THEN js
    ELSE IF Head(act).fut \in DoneFutures
         THEN ReapAll(CompleteResult(js, Head(act).job_id, Head(act).fut = "ok",
                                     IF Head(act).fut = "ok" THEN Null ELSE "err"),
                      Tail(act))
         ELSE ReapAll(js, Tail(act))

\* _process_completed_jobs: the done futures leave _active_jobs and
\* _active_gpu_jobs, and their jobs are completed in queue.json
Reap ==
    LET done == {active_jobs[i].job_id : i \in {k \in DOMAIN active_jobs :
                                                 active_jobs[k].fut \in DoneFutures}}
    IN /\ jobs' = ReapAll(jobs, active_jobs)
       /\ active_jobs' = SelectSeq(active_jobs, LAMBDA a : a.fut \notin DoneFutures)
       /\ active_gpu_jobs' = active_gpu_jobs \ done

\* run(), an iteration of `while not self._shutdown_requested`:
\* _process_completed_jobs()
process_completed_jobs ==
    /\ dpc = "loop"
    /\ ~shutdown_requested
    /\ Reap
    /\ dpc' = "schedule"
    /\ UNCHANGED <<last_served_group, now, job_counter, last, lockvars, filevars,
                   max_parallel, gpu_slots, orphans, shutdown_requested, slots_left,
                   paused_snapshot, daemon_state, dispatched, hpc, hb_state>>

\* _schedule_jobs up to the loop: the free slots, and the paused set read once
schedule_jobs ==
    /\ dpc = "schedule"
    /\ IF AvailableSlots(Len(active_jobs)) <= 0
       THEN /\ dpc' = "loop"
            /\ UNCHANGED <<slots_left, paused_snapshot>>
       ELSE /\ slots_left' = AvailableSlots(Len(active_jobs))
            /\ paused_snapshot' = paused
            /\ dpc' = "scheduling"
    /\ UNCHANGED <<qvars, lockvars, filevars, max_parallel, gpu_slots, active_jobs,
                   active_gpu_jobs, orphans, shutdown_requested, daemon_state, dispatched, hpc, hb_state>>

\* self._executor.submit(self._execute_job, job); self._active_jobs[job_id] =
\* future: a worker thread takes the future if one is free; a future that was
\* under the same key is no longer referenced by the daemon
Submit(job) ==
    LET k == ActiveIndex(job.job_id)
        old == IF k = 0 THEN "none" ELSE active_jobs[k].fut
        oldgpu == k # 0 /\ active_jobs[k].requires_gpu
        orph == [pending |-> orphans.pending + (IF old = "pending" THEN 1 ELSE 0),
                 running |-> orphans.running + (IF old = "running" THEN 1 ELSE 0),
                 gpu_pending |-> orphans.gpu_pending
                                 + (IF old = "pending" /\ oldgpu THEN 1 ELSE 0),
                 gpu_running |-> orphans.gpu_running
                                 + (IF old = "running" /\ oldgpu THEN 1 ELSE 0)]
        fut == IF RunningChildren < max_parallel THEN "running" ELSE "pending"
        entry == [job_id |-> job.job_id, fut |-> fut, requires_gpu |-> job.requires_gpu]
    IN /\ orph.pending + orph.running <= MaxOrphans
       /\ orphans' = orph
       /\ active_jobs' = IF k = 0 THEN Append(active_jobs, entry)
                         ELSE [active_jobs EXCEPT ![k] = entry]
       /\ active_gpu_jobs' = IF job.requires_gpu
                             THEN active_gpu_jobs \cup {job.job_id}
                             ELSE active_gpu_jobs

\* _schedule_jobs, one iteration of `for _ in range(available_slots)`
schedule_one ==
    /\ dpc = "scheduling"
    /\ LET res == DequeueResult(jobs, last_served_group, paused_snapshot,
                                GpuSlotsAvailable(active_gpu_jobs))
       IN IF slots_left = 0 \/ res.ret = <<>>
          THEN /\ dpc' = "loop"
               /\ slots_left' = 0
               /\ paused_snapshot' = {}
               /\ UNCHANGED <<jobs, last_served_group, active_jobs, active_gpu_jobs,
                              orphans, dispatched, hpc, hb_state>>
          ELSE /\ jobs' = res.jobs
               /\ last_served_group' = res.last_served_group
               /\ Submit(res.ret[1])
               /\ slots_left' = slots_left - 1
               /\ dispatched' = dispatched \cup {res.index}
               /\ UNCHANGED <<dpc, paused_snapshot>>
    /\ UNCHANGED <<now, job_counter, last, lockvars, filevars, max_parallel, gpu_slots,
                   shutdown_requested, daemon_state, hpc, hb_state>>

\* run(), the loop is left: _write_daemon_state("stopping")
write_stopping ==
    /\ dpc = "loop"
    /\ shutdown_requested
    /\ daemon_state' = "stopping"
    /\ dpc' = "wait"
    /\ UNCHANGED <<qvars, lockvars, filevars, max_parallel, gpu_slots, active_jobs,
                   active_gpu_jobs, orphans, shutdown_requested, slots_left,
                   paused_snapshot, dispatched, hpc, hb_state>>

\* run(), `while self._active_jobs and (time.time() - start) < 60`:
\* _process_completed_jobs()
wait_for_active ==
    /\ dpc = "wait"
    /\ active_jobs # <<>>
    /\ Reap
    /\ UNCHANGED <<last_served_group, now, job_counter, last, lockvars, filevars,
                   max_parallel, gpu_slots, orphans, shutdown_requested, dpc, slots_left,
                   paused_snapshot, daemon_state, dispatched, hpc, hb_state>>

\* the jobs after complete_job(job_id, False, "Daemon shutdown") for the keys
RECURSIVE FailAll(_, _)
FailAll(js, act) ==
    IF act = <<>> THEN js
    ELSE FailAll(CompleteResult(js, Head(act).job_id, FALSE, "Daemon shutdown"),
                 Tail(act))

\* run(), after the wait (nothing active, or 60 seconds over): the jobs still
\* in _active_jobs are completed as failed, then _write_daemon_state("stopped")
stop ==
    /\ dpc = "wait"
    /\ jobs' = FailAll(jobs, active_jobs)
    /\ daemon_state' = "stopped"
    /\ dpc' = "exited"
    /\ UNCHANGED <<last_served_group, now, job_counter, last, lockvars, filevars,
                   max_parallel, gpu_slots, active_jobs, active_gpu_jobs, orphans,
                   shutdown_requested, slots_left, paused_snapshot, dispatched, hpc, hb_state>>

\* request_shutdown, from the SIGINT / SIGTERM handler
request_shutdown ==
    /\ dpc # "exited"
    /\ ~shutdown_requested
    /\ shutdown_requested' = TRUE
    /\ UNCHANGED <<qvars, lockvars, filevars, max_parallel, gpu_slots, active_jobs,
                   active_gpu_jobs, orphans, dpc, slots_left, paused_snapshot,
                   daemon_state, dispatched, hpc, hb_state>>

\* a worker thread becomes free for a pending future of _active_jobs
child_start(i) ==
    /\ active_jobs[i].fut = "pending"
    /\ RunningChildren < max_parallel
    /\ active_jobs' = [active_jobs EXCEPT ![i].fut = "running"]
    /\ UNCHANGED <<qvars, lockvars, filevars, max_parallel, gpu_slots, active_gpu_jobs,
                   orphans, shutdown_requested, dpc, slots_left, paused_snapshot,
                   daemon_state, dispatched, hpc, hb_state>>

\* _execute_job returns (True, None) or (False, error)
child_exit(i, success) ==
    /\ active_jobs[i].fut = "running"
    /\ active_jobs' = [active_jobs EXCEPT ![i].fut = IF success THEN "ok" ELSE "fail"]
    /\ UNCHANGED <<qvars, lockvars, filevars, max_parallel, gpu_slots, active_gpu_jobs,
                   orphans, shutdown_requested, dpc, slots_left, paused_snapshot,
                   daemon_state, dispatched, hpc, hb_state>>

\* the same two steps of a future the daemon no longer references, the
\* future of a GPU job (gpu) or of another job
orphan_start(gpu) ==
    /\ IF gpu THEN orphans.gpu_pending > 0
              ELSE orphans.pending - orphans.gpu_pending > 0
    /\ RunningChildren < max_parallel
    /\ orphans' = [pending |-> orphans.pending - 1,
                   running |-> orphans.running + 1,
                   gpu_pending |-> orphans.gpu_pending - (IF gpu THEN 1 ELSE 0),
                   gpu_running |-> orphans.gpu_running + (IF gpu THEN 1 ELSE 0)]
    /\ UNCHANGED <<qvars, lockvars, filevars, max_parallel, gpu_slots, active_jobs,
                   active_gpu_jobs, shutdown_requested, dpc, slots_left, paused_snapshot,
                   daemon_state, dispatched, hpc, hb_state>>

orphan_exit(gpu) ==
    /\ IF gpu THEN orphans.gpu_running > 0
              ELSE orphans.running - orphans.gpu_running > 0
    /\ orphans' = [orphans EXCEPT !.running = orphans.running - 1,
                                  !.gpu_running = orphans.gpu_running
                                                  - (IF gpu THEN 1 ELSE 0)]
    /\ UNCHANGED <<qvars, lockvars, filevars, max_parallel, gpu_slots, active_jobs,
                   active_gpu_jobs, shutdown_requested, dpc, slots_left, paused_snapshot,
                   daemon_state, dispatched, hpc, hb_state>>

\* enqueue_run_command: a process of its own, so a manager whose counter is 0
enqueue_run_command(req) ==
    LET res == EnqueueResult(jobs, 0, now, req.run_id, req.group_id, 0,
                             req.requires_gpu)
    IN /\ ~res.raised
       /\ Len(res.jobs) <= MaxJobs
       /\ jobs' = res.jobs
       /\ UNCHANGED <<last_served_group, now, job_counter, last, lockvars, filevars,
                      dvars>>

\* pause_group_command / resume_group_command: GroupPauseManager.set_paused
set_paused(group_id, value) ==
    /\ LET out == SetPaused(group_files, group_id, value)
       IN  /\ group_files' = out.files
           /\ pause_call' = [op |-> "set_paused", group_id |-> group_id, value |-> value,
                             returned |-> out.returned, groups |-> {}]
    /\ UNCHANGED <<qvars, lockvars, storevars, sweepvars, applyvars, devicevars,
                   settingsvars, executevars, cancelvars, stepvars, max_parallel, gpu_slots, active_jobs,
                   active_gpu_jobs, orphans, shutdown_requested, dpc, slots_left,
                   paused_snapshot, daemon_state, dispatched, hpc, hb_state>>

\* GroupPauseManager.is_paused(group_id)
is_paused(group_id) ==
    /\ pause_call' = [op |-> "is_paused", group_id |-> group_id, value |-> FALSE,
                      returned |-> IsPaused(group_files, group_id), groups |-> {}]
    /\ UNCHANGED <<group_files, qvars, lockvars, storevars, sweepvars, applyvars,
                   devicevars, settingsvars, executevars, cancelvars, stepvars, dvars>>

\* GroupPauseManager.get_paused_groups()
get_paused_groups ==
    /\ pause_call' = [op |-> "get_paused_groups", group_id |-> Null, value |-> FALSE,
                      returned |-> FALSE, groups |-> PausedGroups(group_files)]
    /\ UNCHANGED <<group_files, qvars, lockvars, storevars, sweepvars, applyvars,
                   devicevars, settingsvars, executevars, cancelvars, stepvars, dvars>>

PauseNext ==
    \/ \E group_id \in GroupIds, value \in BOOLEAN : set_paused(group_id, value)
    \/ \E group_id \in GroupIds : is_paused(group_id)
    \/ get_paused_groups

\* the groups directory holds any mix of groups with and without group.json
PauseInitial ==
    /\ QueueInit /\ LockInit /\ StoreInit /\ SweepInit /\ ApplyInit /\ DeviceInit
    /\ SettingsInit /\ ExecuteInit /\ CancelInit /\ StepInit /\ DaemonInit(2, 1)
    /\ group_files \in [GroupIds -> {<<>>} \cup {<<doc>> : doc \in GroupDocs}]
    /\ pause_call = NoPauseCall

PauseSpec == PauseInitial /\ [][PauseNext]_vars

DaemonNext ==
    \/ process_completed_jobs
    \/ schedule_jobs
    \/ schedule_one
    \/ write_stopping
    \/ wait_for_active
    \/ stop
    \/ request_shutdown
    \/ \E i \in DOMAIN active_jobs : child_start(i)
    \/ \E i \in DOMAIN active_jobs : child_exit(i, TRUE)
    \/ \E i \in DOMAIN active_jobs : child_exit(i, FALSE)
    \/ \E gpu \in BOOLEAN : orphan_start(gpu)
    \/ \E gpu \in BOOLEAN : orphan_exit(gpu)
    \/ Tick
    \/ \E req \in DaemonRequests : enqueue_run_command(req)
    \/ \E value \in BOOLEAN : ("g1" \in paused) # value /\ set_paused("g1", value)

DaemonInitial ==
    /\ QueueInit /\ LockInit /\ StoreInit /\ SweepInit /\ AuxInit
    /\ \E mp \in ParallelChoices, gs \in GpuSlotChoices : DaemonInit(mp, gs)

DaemonSpec == DaemonInitial /\ [][DaemonNext]_vars

\* ------------------------------------------------------------ _heartbeat_loop
\* The heartbeat thread of the daemon, next to the main thread of run().  It
\* is a daemon thread that run() never joins.

\* _heartbeat_loop, `while not self._shutdown_requested`
heartbeat_test ==
    /\ hpc = "loop"
    /\ hpc' = IF shutdown_requested THEN "ended" ELSE "build"
    /\ UNCHANGED <<qvars, lockvars, filevars, max_parallel, gpu_slots, active_jobs,
                   active_gpu_jobs, orphans, shutdown_requested, dpc, slots_left,
                   paused_snapshot, daemon_state, dispatched, hb_state>>

\* _heartbeat_loop, DaemonState(..., state="stopping" if
\* self._shutdown_requested else "running")
heartbeat_build ==
    /\ hpc = "build"
    /\ hb_state' = IF shutdown_requested THEN "stopping" ELSE "running"
    /\ hpc' = "save"
    /\ UNCHANGED <<qvars, lockvars, filevars, max_parallel, gpu_slots, active_jobs,
                   active_gpu_jobs, orphans, shutdown_requested, dpc, slots_left,
                   paused_snapshot, daemon_state, dispatched>>

\* _heartbeat_loop, self.queue_mgr.save_daemon(daemon_state), then the sleep
heartbeat_save ==
    /\ hpc = "save"
    /\ daemon_state' = hb_state
    /\ hb_state' = Null
    /\ hpc' = "loop"
    /\ UNCHANGED <<qvars, lockvars, filevars, max_parallel, gpu_slots, active_jobs,
                   active_gpu_jobs, orphans, shutdown_requested, dpc, slots_left,
                   paused_snapshot, dispatched>>

HeartbeatRequests == {Request("r1", "g1", FALSE)}

HeartbeatNext ==
    \/ heartbeat_test
    \/ heartbeat_build
    \/ heartbeat_save
    \/ process_completed_jobs
    \/ schedule_jobs
    \/ schedule_one
    \/ write_stopping
    \/ wait_for_active
    \/ stop
    \/ request_shutdown
    \/ \E i \in DOMAIN active_jobs : child_exit(i, TRUE)
    \/ \E req \in HeartbeatRequests : enqueue_run_command(req)

HeartbeatSpec == Init /\ [][HeartbeatNext]_vars

\* -------------------------------------------------- ExecutionDaemon.run()
\* Several daemon processes started on one workspace.  Each runs run(): the
\* lock is tried once; the process that gets it writes its settings and
\* its state, runs the loop, and releases the lock when the loop is left.

Starters == {"d1", "d2"}

StartupRequests == {Request("r1", "g1", FALSE)}

\* a daemon process is in the loop of run()
InLoop == \E p \in Starters : run_pc[p] = "loop"

\* run() up to `if not self._daemon_lock.acquire()`: the version banner, the
\* GPU detection and ensure_queue_dir()
run_start(p) ==
    /\ run_pc[p] = "idle"
    /\ exit_code[p] = Null
    /\ run_pc' = [run_pc EXCEPT ![p] = "acquire"]
    /\ UNCHANGED <<lock_path, files_made, lock_owner, lock_pid, lfd, lpc, acquired,
                   exit_code, qvars, filevars, dvars>>

\* run() that writes its settings although acquire() returned False
run_acquire_failed_ConfiguresFirst(p) ==
    /\ run_pc[p] = "acquire"
    /\ acquired[p] = "False"
    /\ \E mp \in ParallelChoices : max_parallel' = mp
    /\ run_pc' = [run_pc EXCEPT ![p] = "returned"]
    /\ exit_code' = [exit_code EXCEPT ![p] = 1]
    /\ UNCHANGED <<lock_path, files_made, lock_owner, lock_pid, lfd, lpc, acquired,
                   qvars, filevars, gpu_slots, active_jobs, active_gpu_jobs, orphans,
                   shutdown_requested, dpc, slots_left, paused_snapshot,
                   daemon_state, dispatched, hpc, hb_state>>

\* run(), acquire() returned False: get_running_pid() reads the lock file,
\* the error is printed, return 1
run_acquire_failed(p) ==
    /\ run_pc[p] = "acquire"
    /\ acquired[p] = "False"
    /\ run_pc' = [run_pc EXCEPT ![p] = "returned"]
    /\ exit_code' = [exit_code EXCEPT ![p] = 1]
    /\ UNCHANGED <<lock_path, files_made, lock_owner, lock_pid, lfd, lpc, acquired,
                   qvars, filevars, dvars>>

\* QueueManager.set_max_parallel: "state.max_parallel = max_parallel"
SetMaxParallel(settings, n) == [settings EXCEPT !.max_parallel = n]

\* QueueManager.set_gpu_slots: updates the field
SetGpuSlots(settings, n) == [settings EXCEPT !.gpu_slots = n]

\* QueueManager.set_max_parallel(max_parallel), called on its own
set_max_parallel(n) ==
    /\ queue_settings' = SetMaxParallel(queue_settings, n)
    /\ UNCHANGED <<qvars, lockvars, storevars, sweepvars, applyvars, devicevars,
                   pausevars, executevars, cancelvars, stepvars, dvars>>

\* QueueManager.set_gpu_slots(gpu_slots), called on its own
set_gpu_slots(n) ==
    /\ queue_settings' = SetGpuSlots(queue_settings, n)
    /\ UNCHANGED <<qvars, lockvars, storevars, sweepvars, applyvars, devicevars,
                   pausevars, executevars, cancelvars, stepvars, dvars>>

\* run(), acquire() returned True: set_max_parallel, set_gpu_slots,
\* _write_daemon_state("running"), and the executor of this process, which
\* has no job yet
run_configure(p, mp, gs) ==
    /\ run_pc[p] = "acquire"
    /\ acquired[p] = "True"
    /\ max_parallel' = mp
    /\ gpu_slots' = gs
    /\ daemon_state' = "running"
    /\ active_jobs' = <<>>
    /\ active_gpu_jobs' = {}
    /\ orphans' = [pending |-> 0, running |-> 0, gpu_pending |-> 0, gpu_running |-> 0]
    /\ shutdown_requested' = FALSE
    /\ dpc' = "loop"
    /\ slots_left' = 0
    /\ paused_snapshot' = {}
    /\ dispatched' = {}
    /\ queue_settings' = SetGpuSlots(SetMaxParallel(queue_settings, mp), gs)
    /\ run_pc' = [run_pc EXCEPT ![p] = "loop"]
    /\ UNCHANGED <<lock_path, files_made, lock_owner, lock_pid, lfd, lpc, acquired,
                   exit_code, qvars, storevars, sweepvars, applyvars, devicevars,
                   pausevars, executevars, cancelvars, stepvars, hpc, hb_state>>

\* run(), the outer `finally`: the loop is left and the state is written
run_finally(p) ==
    /\ run_pc[p] = "loop"
    /\ dpc = "exited"
    /\ run_pc' = [run_pc EXCEPT ![p] = "release"]
    /\ UNCHANGED <<lock_path, files_made, lock_owner, lock_pid, lfd, lpc, acquired,
                   exit_code, qvars, filevars, dvars>>

\* run(), `return 0` after release()
run_return(p) ==
    /\ run_pc[p] = "release"
    /\ lpc[p] = "idle"
    /\ run_pc' = [run_pc EXCEPT ![p] = "returned"]
    /\ exit_code' = [exit_code EXCEPT ![p] = 0]
    /\ UNCHANGED <<lock_path, files_made, lock_owner, lock_pid, lfd, lpc, acquired,
                   qvars, filevars, dvars>>

StartupNext ==
    \/ \E p \in Starters :
          \/ run_start(p)
          \/ run_pc[p] = "acquire" /\ acquired[p] = Null /\ lock_open(p)
          \/ run_pc[p] = "acquire" /\ lock_try(p)
          \/ run_pc[p] = "acquire" /\ lock_write_pid(p)
          \/ run_acquire_failed(p)
          \/ \E mp \in ParallelChoices, gs \in GpuSlotChoices : run_configure(p, mp, gs)
          \/ run_finally(p)
          \/ run_pc[p] = "release" /\ lock_unlock(p)
          \/ run_pc[p] = "release" /\ lock_close(p)
          \/ run_pc[p] = "release" /\ lock_unlink(p)
          \/ run_return(p)
    \/ InLoop /\ process_completed_jobs
    \/ InLoop /\ schedule_jobs
    \/ InLoop /\ schedule_one
    \/ InLoop /\ write_stopping
    \/ InLoop /\ wait_for_active
    \/ InLoop /\ stop
    \/ InLoop /\ request_shutdown
    \/ InLoop /\ \E i \in DOMAIN active_jobs : child_exit(i, TRUE)
    \/ \E req \in StartupRequests : enqueue_run_command(req)
    \/ \E n \in SettingChoices : set_max_parallel(n)
    \/ \E n \in SettingChoices : set_gpu_slots(n)

\* no daemon runs; daemon.json and queue.json are those of an earlier run
StartupInit ==
    /\ QueueInit /\ LockInit /\ StoreInit /\ SweepInit /\ AuxInit
    /\ max_parallel = 2
    /\ gpu_slots = 1
    /\ active_jobs = <<>>
    /\ active_gpu_jobs = {}
    /\ orphans = [pending |-> 0, running |-> 0, gpu_pending |-> 0, gpu_running |-> 0]
    /\ shutdown_requested = FALSE
    /\ dpc = "exited"
    /\ slots_left = 0
    /\ paused_snapshot = {}
    /\ daemon_state = "stopped"
    /\ dispatched = {}
    /\ hpc = "loop"
    /\ hb_state = Null

StartupSpec == StartupInit /\ [][StartupNext]_vars

\* ---------------------------------------------- sweep: plan to group
\* SweepOrchestrator.expand_grid() of the plan
expand_grid ==
    /\ ~configs.done
    /\ configs' = [done |-> TRUE, runs |-> ExpandGrid(plan, now)]
    /\ UNCHANGED <<plan, group, storevars, auxvars, qvars, lockvars, dvars>>

\* enqueue_sweep_command / execute, `if not run_configs: return INVALID_PLAN`,
\* then setup_group(run_configs)
setup_group ==
    /\ configs.done
    /\ configs.runs # <<>>
    /\ group.runs = <<>>
    /\ group' = InitialGroup([k \in DOMAIN configs.runs |-> configs.runs[k].run_id])
    /\ UNCHANGED <<plan, configs, storevars, auxvars, qvars, lockvars, dvars>>

SweepNext ==
    \/ Tick
    \/ expand_grid
    \/ setup_group

\* a validated plan is loaded and not yet expanded
SweepInitial ==
    /\ QueueInit /\ LockInit /\ StoreInit /\ AuxInit /\ DaemonInit(2, 1)
    /\ plan \in Plans
    /\ configs = [done |-> FALSE, runs |-> <<>>]
    /\ group = InitialGroup(<<>>)

SweepSpec == SweepInitial /\ [][SweepNext]_vars

\* ------------------------------------------- _update_group_on_completion
\* _update_group_on_completion, the loop over runs: the first run of that
\* run_id gets the status, and on success the metric of result.json if any
RunsAfter(runs, run_id, success, pm) ==
    LET hits == {i \in DOMAIN runs : runs[i].run_id = run_id}
    IN IF hits = {}
       THEN runs
       ELSE LET i == CHOOSE h \in hits : \A k \in hits : h <= k
            IN [runs EXCEPT ![i].status = IF success THEN "succeeded" ELSE "failed",
                            ![i].primary_metric = IF success /\ pm # <<>> THEN pm ELSE @]

\* sum(1 for r in runs if r.get("status") == st)
CountStatus(runs, st) == Cardinality({i \in DOMAIN runs : runs[i].status = st})

\* a count of the unfinished runs that leaves the queued ones out
PendingCount_IgnoresQueued(runs) ==
    Cardinality({i \in DOMAIN runs : runs[i].status \in {"pending", "running"}})

\* sum(1 for r in runs if r.get("status") in ("pending", "queued", "running"))
PendingCount(runs) ==
    Cardinality({i \in DOMAIN runs : runs[i].status \in {"pending", "queued", "running"}})

\* a comparison that lets a later run of the same value win
Better_OrEqual(value, best_value) == value >= best_value

\* `pm["value"] > best_value`
Better(value, best_value) == value > best_value

\* the best-run loop over the first k runs: the position of the best run so
\* far, 0 while best_value is None
RECURSIVE BestIndex(_, _)
BestIndex(runs, k) ==
    IF k = 0
    THEN 0
    ELSE LET b == BestIndex(runs, k - 1)
         IN IF /\ runs[k].primary_metric # <<>>
               /\ (b = 0 \/ Better(runs[k].primary_metric[1].value,
                                   runs[b].primary_metric[1].value))
            THEN k
            ELSE b

\* _update_group_on_completion(job, success) on the group document g, pm
\* being the primary metric in the run's result.json
UpdateGroup(g, run_id, success, pm) ==
    LET runs == RunsAfter(g.runs, run_id, success, pm)
        failed == CountStatus(runs, "failed")
        done == PendingCount(runs) = 0
        b == BestIndex(runs, Len(runs))
    IN [status |-> IF done THEN (IF failed > 0 THEN "failed" ELSE "completed")
                   ELSE g.status,
        finished_at |-> IF done THEN Stamp ELSE g.finished_at,
        runs |-> runs,
        summary |-> [g.summary EXCEPT
                        !.succeeded = CountStatus(runs, "succeeded"),
                        !.failed = failed,
                        !.canceled = CountStatus(runs, "canceled"),
                        !.best_run_id = IF b = 0 THEN <<>> ELSE <<runs[b].run_id>>,
                        !.best_primary_metric =
                            IF b = 0 THEN <<>> ELSE runs[b].primary_metric]]

\* a run id of another batch, which group.json does not list
ForeignRun == RunId(1, 0)

\* the daemon reaps a job of the group: the job of the run at position i of
\* runs[], or for i = 0 a job of the group whose run the group does not list
update_group_on_completion(i, success, pm) ==
    /\ pm # <<>> => success
    /\ group' = UpdateGroup(group, IF i = 0 THEN ForeignRun ELSE group.runs[i].run_id,
                            success, pm)
    /\ last' = Call("update_group", NoArgs, FALSE, pm, success, i)
    /\ UNCHANGED <<jobs, last_served_group, now, job_counter, plan, configs, storevars,
                   auxvars, lockvars, dvars>>

\* enqueue_sweep_command, _update_group_runs_queued: pending runs become queued
update_group_runs_queued ==
    /\ group' = [group EXCEPT !.runs =
                    [i \in DOMAIN group.runs |->
                        IF group.runs[i].status = "pending"
                        THEN [group.runs[i] EXCEPT !.status = "queued"]
                        ELSE group.runs[i]]]
    /\ UNCHANGED <<plan, configs, storevars, auxvars, qvars, lockvars, dvars>>

GroupNext ==
    \/ update_group_runs_queued
    \/ \E i \in 0..Len(group.runs), success \in BOOLEAN, pm \in Metrics :
          update_group_on_completion(i, success, pm)

\* a sweep of one to MaxRuns runs has been set up
GroupInitial ==
    /\ QueueInit /\ LockInit /\ StoreInit /\ AuxInit /\ DaemonInit(2, 1)
    /\ plan = <<>>
    /\ configs = [done |-> FALSE, runs |-> <<>>]
    /\ \E n \in 1..MaxRuns : group = InitialGroup([i \in 1..n |-> RunId(0, i - 1)])

GroupSpec == GroupInitial /\ [][GroupNext]_vars

\* ------------------------------------------------- apply_overrides, as a call
\* SweepOrchestrator.apply_overrides(base, overrides)
apply_overrides ==
    /\ apply_pc = "call"
    /\ LET out == ApplyOverrides(heap, base, overrides)
       IN  /\ heap' = out.heap
           /\ result' = out.result
           /\ apply_pc' = IF out.raised THEN "raised" ELSE "returned"
    /\ UNCHANGED <<base, overrides, devicevars, pausevars, settingsvars, executevars, cancelvars, stepvars, storevars, sweepvars, qvars, lockvars, dvars>>

ApplyNext == apply_overrides

\* a base request is loaded and a dict of overrides is about to be applied
ApplyInitial ==
    /\ QueueInit /\ LockInit /\ StoreInit /\ SweepInit /\ DaemonInit(2, 1)
    /\ heap \in BaseHeaps
    /\ base = 1
    /\ overrides \in OverrideLists
    /\ result = NoObject
    /\ apply_pc = "call"
    /\ DeviceInit /\ PauseInit /\ SettingsInit /\ ExecuteInit /\ CancelInit /\ StepInit

ApplySpec == ApplyInitial /\ [][ApplyNext]_vars

\* ------------------------------------------------------- gpu.py, as calls
\* select_device(requested, gpu_slot_granted); detect_gpu() probes the
\* machine on its first call and answers from its cache afterwards
select_device(requested, gpu_slot_granted) ==
    /\ Len(device_calls) < MaxCalls
    /\ \E info \in GpuInfos :
        /\ gpu_cache # <<>> => info = gpu_cache[1]
        /\ gpu_cache' = <<info>>
        /\ device_calls' = Append(device_calls,
                [requested |-> requested, gpu_slot_granted |-> gpu_slot_granted,
                 available |-> info.available,
                 returned |-> SelectDevice(requested, gpu_slot_granted, info)])
    /\ UNCHANGED <<applyvars, pausevars, settingsvars, executevars, cancelvars, stepvars, storevars, sweepvars, qvars, lockvars, dvars>>

\* clear_gpu_cache()
clear_gpu_cache ==
    /\ gpu_cache # <<>>
    /\ gpu_cache' = <<>>
    /\ UNCHANGED <<device_calls, applyvars, pausevars, settingsvars, executevars, cancelvars, stepvars, storevars, sweepvars, qvars, lockvars, dvars>>

DeviceNext ==
    \/ \E requested \in {"cpu", "gpu"}, gpu_slot_granted \in BOOLEAN :
            select_device(requested, gpu_slot_granted)
    \/ clear_gpu_cache

DeviceSpec == Init /\ [][DeviceNext]_vars

\* ---------------------------------------------- SweepOrchestrator.execute
\* what a step of execute() leaves alone
ExecuteFrame ==
    UNCHANGED <<fail_fast, applyvars, devicevars, pausevars, settingsvars, cancelvars, stepvars,
                storevars,
                sweepvars, qvars, lockvars, dvars>>

\* the submit loop, one iteration: break on a requested cancel, else
\* executor.submit(self.execute_run, rc, ...)
submit_run ==
    /\ execute_pc = "submit"
    /\ IF submit_next > Len(futures) \/ cancel_requested
       THEN /\ execute_pc' = "as_completed"
            /\ UNCHANGED <<futures, submit_next>>
       ELSE /\ futures' = [futures EXCEPT ![submit_next] = Future("running", Null, <<>>)]
            /\ submit_next' = submit_next + 1
            /\ UNCHANGED execute_pc
    /\ UNCHANGED <<state, cancel_requested, execute_returned>>
    /\ ExecuteFrame

\* a worker thread: execute_run returns the RunResult of run i (a future
\* that raised is handled as a failed result)
execute_run(i, status, pm) ==
    /\ futures[i].at = "running"
    /\ pm # <<>> => status = "succeeded"
    /\ futures' = [futures EXCEPT ![i] = Future("done", status, pm)]
    /\ UNCHANGED <<state, cancel_requested, submit_next, execute_pc, execute_returned>>
    /\ ExecuteFrame

\* the as_completed loop, one iteration: update_run_result, then fail_fast
process_completion(i) ==
    /\ execute_pc = "as_completed"
    /\ futures[i].at = "done"
    /\ state' = UpdateRunResult(state, i, futures[i].status, futures[i].pm)
    /\ futures' = [futures EXCEPT ![i] = Future("processed", Null, <<>>)]
    /\ IF fail_fast /\ futures[i].status = "failed"
       THEN cancel_requested' = TRUE /\ execute_pc' = "shutdown"
       ELSE UNCHANGED <<cancel_requested, execute_pc>>
    /\ UNCHANGED <<submit_next, execute_returned>>
    /\ ExecuteFrame

\* the as_completed loop ends: every submitted future was processed
completions_done ==
    /\ execute_pc = "as_completed"
    /\ \A i \in DOMAIN futures : futures[i].at \in {"none", "processed"}
    /\ execute_pc' = "shutdown"
    /\ UNCHANGED <<state, cancel_requested, futures, submit_next, execute_returned>>
    /\ ExecuteFrame

\* "except KeyboardInterrupt: self.request_cancel()", raised in either loop
keyboard_interrupt ==
    /\ execute_pc \in {"submit", "as_completed"}
    /\ cancel_requested' = TRUE
    /\ execute_pc' = "shutdown"
    /\ UNCHANGED <<state, futures, submit_next, execute_returned>>
    /\ ExecuteFrame

\* the exit of the `with ThreadPoolExecutor` block: shutdown(wait=True)
\* returns once no submitted run is running
executor_shutdown ==
    /\ execute_pc = "shutdown"
    /\ \A i \in DOMAIN futures : futures[i].at # "running"
    /\ execute_pc' = "finalize"
    /\ UNCHANGED <<state, cancel_requested, futures, submit_next, execute_returned>>
    /\ ExecuteFrame

\* sweep_command's signal handler: request_cancel(), between two steps of
\* the main thread
request_cancel ==
    /\ execute_pc \in {"submit", "as_completed", "shutdown", "finalize"}
    /\ ~cancel_requested
    /\ cancel_requested' = TRUE
    /\ UNCHANGED <<state, futures, submit_next, execute_pc, execute_returned>>
    /\ ExecuteFrame

\* execute, from "Finalize state" to the return of the exit code
finalize ==
    /\ execute_pc = "finalize"
    /\ state' = Finalize(state, cancel_requested, now)
    /\ execute_returned' = IF cancel_requested THEN CANCELED
                           ELSE IF state.failed > 0 THEN 1 ELSE SUCCESS
    /\ execute_pc' = "returned"
    /\ UNCHANGED <<cancel_requested, futures, submit_next>>
    /\ ExecuteFrame

ExecuteNext ==
    \/ submit_run
    \/ \E i \in DOMAIN futures, status \in {"succeeded", "failed"}, pm \in Metrics :
            execute_run(i, status, pm)
    \/ \E i \in DOMAIN futures : process_completion(i)
    \/ completions_done
    \/ keyboard_interrupt
    \/ executor_shutdown
    \/ request_cancel
    \/ finalize

\* execute() has expanded the grid to one to MaxRuns runs and set up the group
ExecuteInitial ==
    /\ QueueInit /\ LockInit /\ StoreInit /\ SweepInit /\ DaemonInit(2, 1)
    /\ ApplyInit /\ DeviceInit /\ PauseInit /\ SettingsInit /\ CancelInit /\ StepInit
    /\ \E n \in 1..MaxRuns :
        /\ state = InitialState(n)
        /\ futures = [i \in 1..n |-> Future("none", Null, <<>>)]
    /\ cancel_requested = FALSE
    /\ fail_fast \in BOOLEAN
    /\ submit_next = 1
    /\ execute_pc = "submit"
    /\ execute_returned = Null

ExecuteSpec == ExecuteInitial /\ [][ExecuteNext]_vars

\* -------------------------------------- a cancel command next to the daemon
\* The command is a process of its own: the lock of its QueueManager is a
\* threading.Lock, which does not hold off the daemon between the
\* command's load_queue and its save_queue.
CancelFrame ==
    UNCHANGED <<now, job_counter, last, lockvars, storevars, sweepvars, applyvars,
                devicevars, pausevars, settingsvars, executevars, stepvars, dvars>>

\* cancel_job(job_id) / cancel_group(group_id), "state = self.load_queue()"
cancel_load(op, job_id, group_id) ==
    /\ cancel_view = <<>>
    /\ cancel_view' = <<[op |-> op, job_id |-> job_id, group_id |-> group_id,
                         jobs |-> jobs, last_served_group |-> last_served_group]>>
    /\ UNCHANGED <<jobs, last_served_group, cancel_reported>>
    /\ CancelFrame

\* the rest of cancel_job / cancel_group: the queued jobs of the loaded
\* state become canceled, and the state is saved if there is one
cancel_save ==
    /\ cancel_view # <<>>
    /\ LET view == cancel_view[1]
           res == IF view.op = "cancel_job"
                  THEN CancelJobResult(view.jobs, view.job_id).jobs
                  ELSE CancelGroupResult(view.jobs, view.group_id).jobs
           hit == {i \in DOMAIN view.jobs : res[i].state # view.jobs[i].state}
       IN  /\ IF hit # {}
              THEN jobs' = res /\ last_served_group' = view.last_served_group
              ELSE UNCHANGED <<jobs, last_served_group>>
           /\ cancel_reported' = cancel_reported \cup hit
    /\ cancel_view' = <<>>
    /\ CancelFrame

CancelNext ==
    \/ process_completed_jobs
    \/ schedule_jobs
    \/ schedule_one
    \/ \E i \in DOMAIN active_jobs : child_start(i)
    \/ \E i \in DOMAIN active_jobs : child_exit(i, TRUE)
    \/ Tick
    \/ \E req \in StartupRequests : enqueue_run_command(req)
    \/ \E job_id \in KnownIds : cancel_load("cancel_job", job_id, Null)
    \/ \E group_id \in GroupIds : cancel_load("cancel_group", <<>>, group_id)
    \/ cancel_save

CancelSpec == Init /\ [][CancelNext]_vars

\* ------------------------------------------------------------------ claims
\* a step is a call of `op` when it leaves a new record of `op` in `last`
\* (a call that changes nothing and repeats the previous record is a stutter)
Called(op) == last'.op = op /\ last' # last

IsActive(job) == job.state = "queued" \/ job.state = "running"

\* C1: in every reachable queue, for every run_id at most one job with that
\* run_id is queued or running.
C1_OneActiveJobPerRun ==
    \A i, k \in DOMAIN jobs :
        (i # k /\ jobs[i].run_id = jobs[k].run_id) => ~(IsActive(jobs[i]) /\ IsActive(jobs[k]))

LegalTransitions == {<<"queued", "running">>, <<"running", "succeeded">>,
                     <<"running", "failed">>, <<"queued", "canceled">>}

C3_LegalTransitionsOnly ==
    [][\A i \in DOMAIN jobs :
          jobs'[i].state = jobs[i].state
          \/ <<jobs[i].state, jobs'[i].state>> \in LegalTransitions]_vars

C5_PriorityThenFifoWithinGroup ==
    [][(Called("dequeue_next") /\ last'.ret # <<>>) =>
        LET j == last'.ret[1] IN
        \A i \in DOMAIN jobs :
            (/\ jobs[i].state = "queued"
             /\ (jobs[i].group_id = Null \/ jobs[i].group_id \notin last'.args.paused)
             /\ (~jobs[i].requires_gpu \/ last'.args.gpu > 0)
             /\ jobs[i].group_id = j.group_id
             /\ jobs[i].job_id # j.job_id)
            => ~(\/ jobs[i].priority > j.priority
                 \/ (jobs[i].priority = j.priority /\ jobs[i].created_at < j.created_at))
    ]_vars

\* a later job of higher priority overtook an older queued job of its group
C5_Witness ==
    /\ last.op = "dequeue_next" /\ last.ret # <<>>
    /\ \E i \in DOMAIN jobs :
          /\ jobs[i].state = "queued" /\ jobs[i].group_id = last.ret[1].group_id
          /\ jobs[i].priority < last.ret[1].priority
          /\ jobs[i].created_at < last.ret[1].created_at

\* C6: dequeue_next(paused_groups = P) never returns a job whose group_id is in
\* P, and when every queued job is of a paused group it returns None and
\* changes no job.
C6_PausedGroupsAreSkipped ==
    /\ [](last.op = "dequeue_next" /\ last.ret # <<>>
            => last.ret[1].group_id \notin last.args.paused)
    /\ [][(/\ Called("dequeue_next")
           /\ \A i \in DOMAIN jobs :
                 jobs[i].state = "queued" => jobs[i].group_id \in last'.args.paused)
          => (last'.ret = <<>> /\ jobs' = jobs)]_vars

\* a job was returned although an older job of a paused group is queued
C6_Witness ==
    /\ last.op = "dequeue_next" /\ last.ret # <<>> /\ last.args.paused # {}
    /\ \E i \in DOMAIN jobs :
          /\ jobs[i].state = "queued" /\ jobs[i].group_id \in last.args.paused
          /\ jobs[i].created_at < last.ret[1].created_at

\* C7: dequeue_next with gpu_slots_available = 0 never returns a job that
\* requires a GPU, and still returns a job when a queued, unpaused job needs
\* none.
C7_NoGpuJobWithoutSlot ==
    /\ [](last.op = "dequeue_next" /\ last.ret # <<>> /\ last.args.gpu = 0
            => ~last.ret[1].requires_gpu)
    /\ [][(/\ Called("dequeue_next") /\ last'.args.gpu = 0
           /\ \E i \in DOMAIN jobs :
                 /\ jobs[i].state = "queued" /\ ~jobs[i].requires_gpu
                 /\ (jobs[i].group_id = Null \/ jobs[i].group_id \notin last'.args.paused))
          => (last'.ret # <<>> /\ ~last'.ret[1].requires_gpu)]_vars

\* a CPU job was returned although an older GPU job is queued and unpaused
C7_Witness ==
    /\ last.op = "dequeue_next" /\ last.ret # <<>> /\ last.args.gpu = 0
    /\ \E i \in DOMAIN jobs :
          /\ jobs[i].state = "queued" /\ jobs[i].requires_gpu
          /\ jobs[i].group_id \notin last.args.paused
          /\ jobs[i].created_at < last.ret[1].created_at

\* C8: whatever the interleaving of acquire() and release() of several
\* daemon processes, at most one of them has the lock (from the locking call
\* that acquire() answers True for until its handle is closed); acquire()
\* answers True iff no other live process has it; and the locking call of
\* acquire() can always be taken at once, whoever holds the lock.
C8_AtMostOneLockHolder ==
    /\ [](/\ Cardinality({p \in Daemons : lpc[p] \in {"locked", "held", "unlocked"}}) <= 1
          /\ \A p \in Daemons : lpc[p] = "opened" => ENABLED lock_try(p)
          /\ \A p \in Daemons : (lpc[p] = "held" => acquired[p] = "True")
                                /\ (acquired[p] = "True" => lpc[p] # "locked"))
    /\ [][\A p \in Daemons :
            LET other == \E q \in Daemons \ {p} : lpc[q] \in {"locked", "held", "unlocked"}
            IN /\ (lpc[p] = "opened" /\ lpc'[p] = "locked") => ~other
               /\ (lpc[p] = "opened" /\ acquired'[p] = "False") => other]_vars

\* one process holds the lock, another was refused, and the lock file is one
\* that an earlier holder left behind
C8_Witness ==
    \E p, q \in Daemons :
        /\ p # q
        /\ lpc[p] = "held"
        /\ lpc[q] = "idle" /\ acquired[q] = "False"
        /\ lock_pid[lfd[p]] = p
        /\ files_made = 2

\* C9: a load that runs while the state file is being rewritten returns the
\* previous or the new document, never the default state.
C9_LoadNeverFallsBackToDefault ==
    \A r \in Readers : loaded[r] # DefaultState

\* C10: the number of active jobs never exceeds max_parallel: neither the
\* entries of _active_jobs, GPU jobs among them, nor the children running.
C10_ActiveJobsWithinMaxParallel ==
    /\ Len(active_jobs) <= max_parallel
    /\ Cardinality({i \in DOMAIN active_jobs : active_jobs[i].fut = "running"})
           + orphans.running <= max_parallel
    /\ active_gpu_jobs \subseteq {active_jobs[i].job_id : i \in DOMAIN active_jobs}

\* every slot is taken, one of them by a GPU job, and the scheduler is about
\* to look at a queue that still has a job it could otherwise start
C10_Witness ==
    /\ dpc = "schedule"
    /\ Len(active_jobs) = max_parallel
    /\ active_gpu_jobs # {}
    /\ \E i \in DOMAIN jobs :
          /\ jobs[i].state = "queued"
          /\ ~jobs[i].requires_gpu
          /\ jobs[i].group_id \notin paused
          /\ \A k \in DOMAIN active_jobs : active_jobs[k].job_id # jobs[i].job_id

\* C11: the number of active jobs that require a GPU never exceeds gpu_slots:
\* neither the GPU jobs the daemon counts, nor the GPU jobs among the entries
\* of _active_jobs, nor the children of GPU jobs that are running.
C11_ActiveGpuJobsWithinGpuSlots ==
    /\ Cardinality(active_gpu_jobs) <= gpu_slots
    /\ Cardinality({i \in DOMAIN active_jobs : active_jobs[i].requires_gpu}) <= gpu_slots
    /\ Cardinality({i \in DOMAIN active_jobs : active_jobs[i].requires_gpu
                                                /\ active_jobs[i].fut = "running"})
           + orphans.gpu_running <= gpu_slots

\* C12: when run() has returned after a shutdown request, every job the
\* daemon started is succeeded, failed or canceled in queue.json; and the
\* jobs it had started that are running in queue.json when the wait ends are
\* failed with the error "Daemon shutdown".
C12_DispatchedJobsTerminalAfterShutdown ==
    /\ [](dpc = "exited" =>
            \A i \in dispatched : jobs[i].state \in {"succeeded", "failed", "canceled"})
    /\ [][(dpc = "wait" /\ dpc' = "exited") =>
            \A i \in dispatched :
                jobs[i].state = "running" =>
                    (jobs'[i].state = "failed" /\ jobs'[i].error = "Daemon shutdown")]_vars

\* C13: the state in daemon.json only moves running -> stopping -> stopped,
\* and once run() has returned it is stopped, however the writes of the
\* heartbeat thread and of the main thread interleave.
C13_DaemonStateOnlyMovesForward ==
    /\ [][daemon_state' # daemon_state =>
            <<daemon_state, daemon_state'>> \in {<<"running", "stopping">>,
                                                 <<"stopping", "stopped">>,
                                                 <<"running", "stopped">>}]_vars
    /\ [](dpc = "exited" => daemon_state = "stopped")

\* another process has the lock on the lock file
HeldByOther(p) ==
    \E q \in Daemons \ {p} : lpc[q] \in {"locked", "held", "unlocked"}

\* a step that leaves queue.json, daemon.json, the lock file and the active
\* jobs as they are
Untouched ==
    UNCHANGED <<jobs, last_served_group, queue_settings, max_parallel, gpu_slots,
                daemon_state, lock_path, lock_pid, lock_owner, active_jobs,
                active_gpu_jobs, dispatched>>

\* C14: a daemon whose acquire() is called while another daemon has the lock
\* is refused; the refused run() returns 1, and none of its steps from the
\* open of the lock file to the return changes queue.json (its jobs, its
\* max_parallel and gpu_slots), daemon.json, the lock file or the jobs that
\* are active, so it starts no job.
C14_RefusedDaemonChangesNothing ==
    /\ [][\A p \in Starters :
            /\ (lpc[p] = "opened" /\ lpc'[p] # "opened" /\ HeldByOther(p))
                   => acquired'[p] = "False"
            /\ (run_pc[p] = "acquire" /\ lpc[p] = "idle" /\ lpc'[p] = "opened"
                  /\ HeldByOther(p)) => Untouched
            /\ (run_pc[p] = "acquire" /\ acquired[p] # "False" /\ acquired'[p] = "False")
                   => Untouched
            /\ (run_pc[p] = "acquire" /\ acquired[p] = "False" /\ run_pc'[p] # "acquire")
                   => (Untouched /\ exit_code'[p] = 1 /\ run_pc'[p] = "returned")]_vars
    /\ [](\A p \in Starters : acquired[p] = "False" => run_pc[p] \in {"acquire", "returned"})

\* one daemon is in its loop with a job started and settings of its own, and
\* the other one has returned 1
C14_Witness ==
    \E p, q \in Starters :
        /\ run_pc[q] = "loop" /\ lpc[q] = "held" /\ lock_pid[lock_path] = q
        /\ max_parallel = 1 /\ gpu_slots = 0
        /\ active_jobs # <<>>
        /\ run_pc[p] = "returned" /\ exit_code[p] = 1 /\ acquired[p] = "False"

\* C15: retry_failed(g) appends, in list order, one new job for each failed
\* job of group g, with that job's run_id, group and priority, queued, with
\* attempt one more, and with a job_id that no job of the queue has and no
\* other new job has; it returns the new jobs; and every job that was in the
\* queue, the failed ones included, is as before.
C15_RetryAppendsOneNewJobPerFailedJob ==
    [][Called("retry_failed") =>
        LET g == last'.args.group_id
            n == Len(jobs)
            F == {i \in DOMAIN jobs : jobs[i].group_id = g /\ jobs[i].state = "failed"}
            nth(k) == CHOOSE i \in F : Cardinality({m \in F : m < i}) = k - 1
        IN /\ Len(jobs') = n + Cardinality(F)
           /\ SubSeq(jobs', 1, n) = jobs
           /\ last'.ret = SubSeq(jobs', n + 1, Len(jobs'))
           /\ \A k \in 1..Cardinality(F) :
                 LET new == jobs'[n + k]
                     old == jobs[nth(k)]
                 IN /\ new.run_id = old.run_id
                    /\ new.group_id = old.group_id
                    /\ new.priority = old.priority
                    /\ new.state = "queued"
                    /\ new.attempt = old.attempt + 1
                    /\ \A i \in DOMAIN jobs' : i # n + k => jobs'[i].job_id # new.job_id
    ]_vars

\* C16: cancel_job(job_id) returns true exactly when a job with that id is
\* queued, and then that job is canceled and nothing else changes; otherwise
\* (the job is running or terminal, or there is none) it returns false and
\* queue.json is unchanged.
C16_CancelJobOnlyCancelsQueued ==
    [][Called("cancel_job") =>
        LET id == last'.args.job_id
            Q == {i \in DOMAIN jobs : jobs[i].job_id = id /\ jobs[i].state = "queued"}
        IN /\ last'.ok <=> Q # {}
           /\ last'.ok =>
                /\ DOMAIN jobs' = DOMAIN jobs
                /\ \A i \in DOMAIN jobs :
                      IF i \in Q
                      THEN jobs'[i].state = "canceled"
                      ELSE jobs'[i] = jobs[i]
           /\ ~last'.ok => (jobs' = jobs /\ last_served_group' = last_served_group)
    ]_vars

\* C17: cancel_group(g) sets every queued job of group g to canceled and
\* returns how many they are; every other job (of another group, ungrouped,
\* or of g and running or terminal) is as before.
C17_CancelGroupCancelsQueuedOfGroup ==
    [][Called("cancel_group") =>
        LET g == last'.args.group_id
            Q == {i \in DOMAIN jobs : jobs[i].group_id = g /\ jobs[i].state = "queued"}
        IN /\ last'.count = Cardinality(Q)
           /\ DOMAIN jobs' = DOMAIN jobs
           /\ \A i \in DOMAIN jobs :
                 IF i \in Q
                 THEN /\ jobs'[i].state = "canceled"
                      /\ [jobs'[i] EXCEPT !.state = "queued", !.finished_at = Null] = jobs[i]
                 ELSE jobs'[i] = jobs[i]
           /\ last_served_group' = last_served_group
    ]_vars

\* cancel_group canceled a queued job of its group and left alone a running
\* job of the group and a queued job of another group
C17_Witness ==
    /\ last.op = "cancel_group" /\ last.count > 0
    /\ \E i, k, m \in DOMAIN jobs :
          /\ jobs[i].group_id = last.args.group_id /\ jobs[i].state = "canceled"
          /\ jobs[k].group_id = last.args.group_id /\ jobs[k].state = "running"
          /\ jobs[m].group_id # last.args.group_id /\ jobs[m].state = "queued"

\* C18: after an aggregator call, if no run of the group is pending, queued
\* or running, the group's status is failed when some run is failed and
\* completed otherwise, and execution.finished_at is set; if some run is,
\* status and finished_at are as they were; the summary counts the runs of
\* each status; and a group of two runs, one succeeded and one failed, is
\* failed with summary.succeeded = 1 and summary.failed = 1.
C18_GroupTerminalWhenNoRunPending ==
    [][Called("update_group") =>
        LET runs == group'.runs
            with(st) == {i \in DOMAIN runs : runs[i].status = st}
            open == with("pending") \cup with("queued") \cup with("running")
        IN /\ open = {} =>
                /\ group'.status = IF with("failed") # {} THEN "failed" ELSE "completed"
                /\ group'.finished_at # Null
           /\ open # {} =>
                /\ group'.status = group.status
                /\ group'.finished_at = group.finished_at
           /\ group'.summary.succeeded = Cardinality(with("succeeded"))
           /\ group'.summary.failed = Cardinality(with("failed"))
           /\ (Len(runs) = 2 /\ with("succeeded") # {} /\ with("failed") # {}) =>
                /\ group'.status = "failed"
                /\ group'.summary.succeeded = 1
                /\ group'.summary.failed = 1
    ]_vars

\* the second of two runs has completed: one succeeded, one failed, and the
\* group is failed
C18_Witness ==
    /\ last.op = "update_group"
    /\ Len(group.runs) = 2
    /\ \E i, k \in DOMAIN group.runs :
          group.runs[i].status = "succeeded" /\ group.runs[k].status = "failed"
    /\ group.status = "failed" /\ group.finished_at # Null
    /\ group.summary.succeeded = 1 /\ group.summary.failed = 1

\* C19: summary.best_run_id names the run of the greatest primary metric
\* value, of those the earliest in runs[], and summary.best_primary_metric is
\* that run's metric, whatever the order in which the runs completed; both are
\* null when no run has a metric.
C19_BestRunIsGreatestMetricEarliestOnTies ==
    LET runs == group.runs
        M == {i \in DOMAIN runs : runs[i].primary_metric # <<>>}
        v(i) == runs[i].primary_metric[1].value
    IN IF M = {}
       THEN group.summary.best_run_id = <<>> /\ group.summary.best_primary_metric = <<>>
       ELSE LET b == CHOOSE i \in M : \A k \in M : v(i) > v(k) \/ (v(i) = v(k) /\ i <= k)
            IN /\ group.summary.best_run_id = <<runs[b].run_id>>
               /\ group.summary.best_primary_metric = runs[b].primary_metric

\* two runs have the greatest value; the earlier of them completed last and
\* is the best run
C19_Witness ==
    /\ last.op = "update_group" /\ last.count > 0
    /\ \E k \in DOMAIN group.runs :
          /\ k > last.count
          /\ group.runs[k].primary_metric # <<>>
          /\ group.runs[last.count].primary_metric = group.runs[k].primary_metric
          /\ \A m \in DOMAIN group.runs :
                group.runs[m].primary_metric # <<>> =>
                    group.runs[m].primary_metric[1].value
                        <= group.runs[k].primary_metric[1].value
    /\ group.summary.best_run_id = <<group.runs[last.count].run_id>>

C21_ApplyOverridesLeavesBaseUntouched ==
    [][apply_pc' # apply_pc =>
        /\ \A address \in 1..Len(heap) : heap'[address] = heap[address]
        /\ SameDoc(heap', base', heap, base)
        /\ overrides = <<>> =>
            /\ apply_pc' = "returned"
            /\ SameDoc(heap', result', heap, base)]_vars

\* an override reaching into the nested mapping of base was applied, and
\* the returned request differs from base
C21_Witness ==
    /\ apply_pc = "returned"
    /\ \E i \in DOMAIN overrides : overrides[i].path = <<"b", ".", "c">>
    /\ KeyB \in DOMAIN heap[base] /\ heap[base][KeyB].kind = "dict"
    /\ ~SameDoc(heap, result, heap, base)

\* a request as the set of its entries <<sequence of keys, value>>, a
\* mapping counting as an entry with the value IsMapping
IsMapping == 0 - 1
RECURSIVE Entries(_, _, _)
Entries(h, address, prefix) ==
    UNION {IF h[address][key].kind = "dict"
           THEN {<<Append(prefix, key), IsMapping>>}
                    \cup Entries(h, h[address][key].v, Append(prefix, key))
           ELSE {<<Append(prefix, key), h[address][key].v>>} : key \in DOMAIN h[address]}

IsPrefix(p, q) == Len(p) <= Len(q) /\ SubSeq(q, 1, Len(p)) = p

\* every key of `parts` before the last is absent from the request or a mapping
Walkable(entries, parts) ==
    \A e \in entries : (IsPrefix(e[1], parts) /\ e[1] # parts) => e[2] = IsMapping

\* C22: an override (path, null) removes exactly the leaf key at the dotted
\* path and leaves every sibling key and every other key as in base; a
\* non-null override assigns the leaf and creates the missing intermediate
\* mappings (stated for paths that do not run through a scalar of base).
C22_NullRemovesOnlyTheLeaf ==
    [][(apply_pc' # apply_pc /\ Len(overrides) = 1) =>
        LET parts == Split(overrides[1].path)
            value == overrides[1].value
            before == Entries(heap, base, <<>>)
            kept == {e \in before : ~IsPrefix(parts, e[1])}
        IN  Walkable(before, parts) =>
            /\ apply_pc' = "returned"
            /\ Entries(heap', result', <<>>) =
                IF value = <<>> THEN kept
                ELSE kept \cup {<<parts, value[1]>>}
                          \cup {<<SubSeq(parts, 1, n), IsMapping>> : n \in 1..(Len(parts) - 1)}]_vars

\* C22 (amended): every override, null or not, first creates the missing
\* intermediate mappings of its dotted path (empty mappings); then a null
\* value removes the leaf key if it is there and a non-null value assigns
\* it; every other key is as in base. Stated for paths that do not run
\* through a scalar of base (such a path raises).
C22_OverrideCreatesParentsThenSetsLeaf ==
    [][(apply_pc' # apply_pc /\ Len(overrides) = 1) =>
        LET parts == Split(overrides[1].path)
            value == overrides[1].value
            before == Entries(heap, base, <<>>)
            kept == {e \in before : ~IsPrefix(parts, e[1])}
            parents == {<<SubSeq(parts, 1, n), IsMapping>> : n \in 1..(Len(parts) - 1)}
        IN  IF Walkable(before, parts)
            THEN /\ apply_pc' = "returned"
                 /\ Entries(heap', result', <<>>) =
                        kept \cup parents
                             \cup (IF value = <<>> THEN {} ELSE {<<parts, value[1]>>})
            ELSE apply_pc' = "raised"]_vars

\* base {a: 0, b: {c: 7, keep: 1}} with the override b.c: null gave a
\* request without b.c that still has b.keep and a
C22_Witness ==
    /\ apply_pc = "returned"
    /\ overrides = <<[path |-> <<"b", ".", "c">>, value |-> <<>>]>>
    /\ Entries(heap, base, <<>>) =
        {<<<<KeyA>>, 0>>, <<<<KeyB>>, IsMapping>>, <<<<KeyB, KeyC>>, 7>>, <<<<KeyB, KeyKeep>>, 1>>}
    /\ Entries(heap, result, <<>>) =
        {<<<<KeyA>>, 0>>, <<<<KeyB>>, IsMapping>>, <<<<KeyB, KeyKeep>>, 1>>}

\* C23: select_device("gpu", gpu_slot_granted = false) returns cpu with
\* the reason slot-unavailable whatever the GPU oracle reports; the result
\* is gpu only when GPU was requested, the oracle reports it available and
\* the slot was granted; a cpu request always yields cpu.
C23_NoSlotGivesCpuWithSlotUnavailable ==
    \A i \in DOMAIN device_calls :
        LET call == device_calls[i]
        IN  /\ (call.requested = "gpu" /\ ~call.gpu_slot_granted) =>
                /\ call.returned.device = "cpu"
                /\ call.returned.reason = GPU_REASON_SLOT_UNAVAILABLE
            /\ call.returned.device = "gpu" =>
                call.requested = "gpu" /\ call.available /\ call.gpu_slot_granted
            /\ call.requested = "cpu" => call.returned.device = "cpu"

\* C24: for an existing group g, set_paused(g, b) returns true; afterwards
\* is_paused(g) = b and g is in get_paused_groups() exactly when b; every
\* other field of g's group.json and every other group's group.json, its
\* pause flag included, is unchanged.
C24_SetPausedSetsOnlyTheFlag ==
    [][(pause_call'.op = "set_paused" /\ pausevars' # pausevars) =>
        LET g == pause_call'.group_id
            b == pause_call'.value
        IN  group_files[g] # <<>> =>
            /\ pause_call'.returned
            /\ IsPaused(group_files', g) = b
            /\ (g \in PausedGroups(group_files')) = b
            /\ group_files'[g] # <<>>
            /\ group_files'[g][1].name = group_files[g][1].name
            /\ group_files'[g][1].status = group_files[g][1].status
            /\ \A other \in GroupIds \ {g} : group_files'[other] = group_files[other]]_vars

\* a completed group whose group.json had no "paused" key was paused
\* while the other group stayed paused
C24_Witness ==
    /\ pause_call = [op |-> "set_paused", group_id |-> "g1", value |-> TRUE,
                     returned |-> TRUE, groups |-> {}]
    /\ group_files["g1"] = <<[name |-> "sweep", status |-> "completed", paused |-> <<TRUE>>]>>
    /\ PausedGroups(group_files) = {"g1", "g2"}

\* C25: in every reachable state of queue.json max_parallel >= 1 and
\* gpu_slots >= 0, after daemon startups and after set_max_parallel(n) and
\* set_gpu_slots(n) with any n >= 0.
C25_QueueSettingsWithinRange ==
    /\ queue_settings.max_parallel >= 1
    /\ queue_settings.gpu_slots >= 0

\* C26: all jobs in queue.json have pairwise distinct job_id, whichever
\* QueueManager instances enqueue and retry_failed created them with.
C26_JobIdsPairwiseDistinct ==
    \A i, j \in DOMAIN jobs : i # j => jobs[i].job_id # jobs[j].job_id

\* C27: when a foreground sweep finishes, the group's status is canceled
\* with execution.cancelled = true if cancellation was requested, else
\* failed if at least one run failed, else completed; every run that was
\* pending has been flipped to canceled, no run is left pending, and
\* succeeded + failed + canceled = total.
C27_ForegroundSweepFinalStatus ==
    /\ [](execute_pc = "returned" =>
            /\ state.status = IF cancel_requested THEN "canceled"
                              ELSE IF CountRuns(state, "failed") > 0 THEN "failed"
                              ELSE "completed"
            /\ cancel_requested => state.cancelled
            /\ CountRuns(state, "pending") = 0
            /\ state.succeeded + state.failed + state.canceled = Len(state.runs)
            /\ state.succeeded = CountRuns(state, "succeeded")
            /\ state.failed = CountRuns(state, "failed")
            /\ state.canceled = CountRuns(state, "canceled"))
    /\ [][execute_pc' = "returned" =>
            \A i \in DOMAIN state.runs :
                state.runs[i].status = "pending" => state'.runs[i].status = "canceled"]_vars

\* a sweep of three runs was canceled after one run had failed and one had
\* succeeded: the third run was pending and is canceled
C27_Witness ==
    /\ execute_pc = "returned"
    /\ cancel_requested
    /\ state.status = "canceled"
    /\ state.succeeded = 1 /\ state.failed = 1 /\ state.canceled = 1

\* C28: once shutdown has been requested the daemon dequeues and starts no
\* further job, also when the request arrives in the middle of a
\* scheduling pass: no queued job becomes running and no job is submitted
\* to the executor.
C28_NoStartAfterShutdownRequested ==
    [][shutdown_requested =>
        /\ dispatched' \subseteq dispatched
        /\ \A i \in DOMAIN jobs : jobs[i].state = "queued" => jobs'[i].state # "running"]_vars

\* C29: a job for which cancel_job returned true, or that cancel_group
\* counted, stays canceled, and no later dequeue_next of the daemon returns
\* and starts it, for every interleaving of the cancel command with the
\* daemon's scheduling pass.
C29_CanceledJobStaysCanceled ==
    /\ [](\A i \in cancel_reported : i \in DOMAIN jobs /\ jobs[i].state = "canceled")
    /\ [][\A i \in cancel_reported : i \notin dispatched' \ dispatched]_vars

\* job_<yyyymmdd_HHMMSS>_<counter>: the order of two ids, by second and
\* then by counter
IdLess(a, b) == a[1] < b[1] \/ (a[1] = b[1] /\ a[2] < b[2])

\* C30: in every reachable state the jobs list of queue.json is in
\* monotonically increasing job_id order: every job has a larger job_id
\* than all the jobs before it in the list.
C30_JobsInIncreasingIdOrder ==
    \A i, j \in DOMAIN jobs : i < j => IdLess(jobs[i].job_id, jobs[j].job_id)

\* ------------------------------------- _process_completed_jobs, step by step
\* The steps of _process_completed_jobs for each done future, next to the
\* scheduling passes of the same loop, the children and enqueue commands.
\* group is the group.json of group g1.

ReapGroup == "g1"

\* what the steps of _process_completed_jobs leave alone
ReapFrame ==
    UNCHANGED <<last_served_group, now, job_counter, last, lockvars, storevars, plan,
                configs, applyvars, devicevars, pausevars, settingsvars, executevars,
                cancelvars, planvars, lostvars, racevars, max_parallel, gpu_slots,
                orphans,
                shutdown_requested, slots_left, paused_snapshot, daemon_state, dispatched,
                hpc, hb_state>>

\* _process_completed_jobs: `completed` is collected, the (job_id, future)
\* pairs of _active_jobs whose future is done
reap_collect ==
    /\ dpc = "loop"
    /\ ~shutdown_requested
    /\ completed' = SelectSeq(active_jobs, LAMBDA a : a.fut \in DoneFutures)
    /\ reap_pc' = "remove"
    /\ dpc' = "reaping"
    /\ UNCHANGED <<jobs, group, active_jobs, active_gpu_jobs>>
    /\ ReapFrame

\* for job_id, future in completed: del self._active_jobs[job_id];
\* self._active_gpu_jobs.discard(job_id)
reap_remove ==
    /\ dpc = "reaping"
    /\ reap_pc = "remove"
    /\ completed # <<>>
    /\ active_jobs' = SelectSeq(active_jobs, LAMBDA a : a.job_id # Head(completed).job_id)
    /\ active_gpu_jobs' = active_gpu_jobs \ {Head(completed).job_id}
    /\ reap_pc' = "complete"
    /\ UNCHANGED <<jobs, group, dpc, completed>>
    /\ ReapFrame

\* success, error = future.result(); self.queue_mgr.complete_job(job_id,
\* success, error)
reap_complete ==
    /\ dpc = "reaping"
    /\ reap_pc = "complete"
    /\ jobs' = CompleteResult(jobs, Head(completed).job_id, Head(completed).fut = "ok",
                              IF Head(completed).fut = "ok" THEN Null ELSE "err")
    /\ reap_pc' = "group"
    /\ UNCHANGED <<group, active_jobs, active_gpu_jobs, dpc, completed>>
    /\ ReapFrame

\* state = self.queue_mgr.load_queue(); for the first job with the id:
\* self._update_group_on_completion(job, success), which returns at once for a
\* job without a group and for a group without a group.json
reap_update_group ==
    /\ dpc = "reaping"
    /\ reap_pc = "group"
    /\ LET k == FirstWithId(jobs, Head(completed).job_id)
       IN group' = IF k # 0 /\ jobs[k].group_id = ReapGroup
                   THEN UpdateGroup(group, jobs[k].run_id, Head(completed).fut = "ok",
                                    <<>>)
                   ELSE group
    /\ completed' = Tail(completed)
    /\ reap_pc' = "remove"
    /\ UNCHANGED <<jobs, active_jobs, active_gpu_jobs, dpc>>
    /\ ReapFrame

\* the loop over `completed` is over: run() goes on with _schedule_jobs()
reap_return ==
    /\ dpc = "reaping"
    /\ reap_pc = "remove"
    /\ completed = <<>>
    /\ reap_pc' = "idle"
    /\ dpc' = "schedule"
    /\ UNCHANGED <<jobs, group, active_jobs, active_gpu_jobs, completed>>
    /\ ReapFrame

ReapRequests == {Request("r1", "g1", FALSE), Request("r3", "g2", TRUE)}

ReapNext ==
    \/ reap_collect
    \/ reap_remove
    \/ reap_complete
    \/ reap_update_group
    \/ reap_return
    \/ schedule_jobs
    \/ schedule_one
    \/ \E i \in DOMAIN active_jobs : child_start(i)
    \/ \E i \in DOMAIN active_jobs, success \in BOOLEAN : child_exit(i, success)
    \/ Tick
    \/ \E req \in ReapRequests : enqueue_run_command(req)

\* the daemon runs; group g1 has a group.json that lists run r1
ReapInitial ==
    /\ QueueInit /\ LockInit /\ StoreInit /\ AuxInit
    /\ plan = <<>>
    /\ configs = [done |-> FALSE, runs |-> <<>>]
    /\ group = InitialGroup(<<"r1">>)
    /\ \E mp \in ParallelChoices : DaemonInit(mp, 1)

ReapSpec == ReapInitial /\ [][ReapNext]_vars

\* C31: a job the daemon started and that is still running in queue.json is
\* in the active set (the daemon marks it terminal with complete_job before
\* it removes it), and a job leaves the active set only when queue.json no
\* longer has it as running.
C31_CompletedBeforeRemoved ==
    /\ [](\A k \in dispatched :
            jobs[k].state = "running" => jobs[k].job_id \in ActiveIds)
    /\ [][\A k \in dispatched :
            (jobs[k].job_id \in ActiveIds /\ jobs[k].job_id \notin ActiveIds')
            => jobs[k].state # "running"]_vars

\* ------------------------------------------ enqueue_sweep_command: the plan
INVALID_PLAN == 6

\* SweepPlan.validate(): the errors, in the order of the checks; base_request
\* is whether the dict is non-empty, params is strategy.parameters
Validate(f, params) ==
    (IF f.version # 1 THEN <<"Unsupported plan version">> ELSE <<>>)
    \o (IF f.kind # "sweep_plan" THEN <<"Invalid kind">> ELSE <<>>)
    \o (IF f.workspace = "" THEN <<"workspace is required">> ELSE <<>>)
    \o (IF ~f.base_request THEN <<"base_request is required">> ELSE <<>>)
    \o (IF f.strategy_type \notin {"grid", "list"}
        THEN <<"Unsupported strategy type">> ELSE <<>>)
    \o (IF f.strategy_type = "grid" /\ params = <<>>
        THEN <<"grid strategy requires at least one parameter">> ELSE <<>>)
    \o (IF f.max_parallel < 1 THEN <<"max_parallel must be >= 1">> ELSE <<>>)

\* the plans SweepPlan.load can give
PlanFields ==
    [version : {0, 1}, kind : {"sweep_plan", "request"}, workspace : {"", "ws"},
     base_request : BOOLEAN, strategy_type : {"grid", "list", "random"},
     max_parallel : {0, 1}]

PlanFrame == UNCHANGED <<plan_fields, plan, group, reapvars, lostvars, racevars, storevars, applyvars,
                         devicevars, pausevars, settingsvars, executevars, cancelvars,
                         qvars, lockvars, dvars>>

\* enqueue_sweep_command: errors = plan.validate(); if errors: return
\* INVALID_PLAN
plan_validate ==
    /\ sweep_call.pc = "loaded"
    /\ LET errors == Validate(plan_fields, plan)
       IN sweep_call' = IF errors # <<>>
                        THEN [sweep_call EXCEPT !.pc = "returned", !.errors = errors,
                                                !.returned = <<INVALID_PLAN>>]
                        ELSE [sweep_call EXCEPT !.pc = "validated"]
    /\ UNCHANGED configs
    /\ PlanFrame

\* enqueue_sweep_command: run_configs = orchestrator.expand_grid(), which
\* raises ValueError for a strategy other than grid; if not run_configs:
\* return INVALID_PLAN
plan_expand ==
    /\ sweep_call.pc = "validated"
    /\ IF plan_fields.strategy_type # "grid"
       THEN /\ sweep_call' = [sweep_call EXCEPT !.pc = "returned", !.raised = TRUE]
            /\ UNCHANGED configs
       ELSE /\ configs' = [done |-> TRUE, runs |-> ExpandGrid(plan, now)]
            /\ sweep_call' = IF ExpandGrid(plan, now) = <<>>
                             THEN [sweep_call EXCEPT !.pc = "returned",
                                                     !.returned = <<INVALID_PLAN>>]
                             ELSE [sweep_call EXCEPT !.pc = "expanded"]
    /\ PlanFrame

PlanNext ==
    \/ plan_validate
    \/ plan_expand

\* enqueue_sweep_command has loaded a plan
PlanInitial ==
    /\ QueueInit /\ LockInit /\ StoreInit /\ DaemonInit(2, 1)
    /\ ApplyInit /\ DeviceInit /\ PauseInit /\ SettingsInit /\ ExecuteInit /\ CancelInit
    /\ ReapInit /\ LostInit /\ RaceInit
    /\ plan_fields \in PlanFields
    /\ plan \in Plans \cup {<<>>}
    /\ sweep_call = [pc |-> "loaded", errors |-> <<>>, returned |-> <<>>, raised |-> FALSE]
    /\ configs = [done |-> FALSE, runs |-> <<>>]
    /\ group = InitialGroup(<<>>)

PlanSpec == PlanInitial /\ [][PlanNext]_vars

\* C32: every plan that validate() accepts can be expanded: after a
\* validation without errors, a list plan included, the expansion does not
\* fail, and a list plan gets its run configs.
C32_ValidatedPlanExpands ==
    (sweep_call.pc \in {"expanded", "returned"} /\ Validate(plan_fields, plan) = <<>>)
    => (~sweep_call.raised
        /\ (plan_fields.strategy_type = "list" => sweep_call.pc = "expanded"))

\* ------------------------------ load_queue ... save_queue of two processes
\* Every call of the queue manager loads queue.json, changes the state it
\* loaded and saves it, under self._lock: a threading.Lock of the manager of
\* its own process.  Here an enqueue command and the dequeue_next of the
\* daemon are two steps each, the load and the rest.

LostFrame ==
    UNCHANGED <<now, job_counter, last, lockvars, storevars, sweepvars, applyvars,
                devicevars, pausevars, settingsvars, executevars, cancelvars, reapvars,
                planvars, racevars, max_parallel, gpu_slots, shutdown_requested,
                paused_snapshot,
                daemon_state, hpc, hb_state>>

\* enqueue_run_command, QueueManager.enqueue: state = self.load_queue()
enqueue_load(req) ==
    /\ enqueue_view = <<>>
    /\ enqueue_view' = <<[req |-> req, jobs |-> jobs,
                          last_served_group |-> last_served_group]>>
    /\ UNCHANGED <<jobs, last_served_group, enqueue_returned, daemon_view, active_jobs,
                   active_gpu_jobs, orphans, dpc, slots_left, dispatched>>
    /\ LostFrame

\* the rest of enqueue, by a manager whose counter is 0: the duplicate check
\* (ValueError, nothing saved), or the new job appended to the loaded state,
\* save_queue, return job
enqueue_save ==
    /\ enqueue_view # <<>>
    /\ LET view == enqueue_view[1]
           res == EnqueueResult(view.jobs, 0, now, view.req.run_id, view.req.group_id, 0,
                                view.req.requires_gpu)
       IN  /\ Len(res.jobs) <= MaxJobs
           /\ IF res.raised
              THEN UNCHANGED <<jobs, last_served_group, enqueue_returned>>
              ELSE /\ jobs' = res.jobs
                   /\ last_served_group' = view.last_served_group
                   /\ enqueue_returned' = enqueue_returned
                          \cup {[job_id |-> res.ret[1].job_id, run_id |-> res.ret[1].run_id]}
    /\ enqueue_view' = <<>>
    /\ UNCHANGED <<daemon_view, active_jobs, active_gpu_jobs, orphans, dpc, slots_left,
                   dispatched>>
    /\ LostFrame

\* _schedule_jobs, an iteration of the loop: dequeue_next, state =
\* self.load_queue(); after the last iteration the pass is over
dequeue_load ==
    /\ dpc = "scheduling"
    /\ daemon_view = <<>>
    /\ IF slots_left = 0
       THEN /\ dpc' = "loop"
            /\ UNCHANGED daemon_view
       ELSE /\ daemon_view' = <<[jobs |-> jobs, last_served_group |-> last_served_group]>>
            /\ UNCHANGED dpc
    /\ UNCHANGED <<jobs, last_served_group, enqueue_view, enqueue_returned, active_jobs,
                   active_gpu_jobs, orphans, slots_left, dispatched>>
    /\ LostFrame

\* the rest of dequeue_next and of the iteration: None and `break`, or the
\* selected job marked running in the loaded state, save_queue, and the job
\* submitted to the executor
dequeue_save ==
    /\ daemon_view # <<>>
    /\ LET view == daemon_view[1]
           res == DequeueResult(view.jobs, view.last_served_group, paused_snapshot,
                                GpuSlotsAvailable(active_gpu_jobs))
       IN IF res.ret = <<>>
          THEN /\ dpc' = "loop"
               /\ slots_left' = 0
               /\ UNCHANGED <<jobs, last_served_group, active_jobs, active_gpu_jobs,
                              orphans, dispatched>>
          ELSE /\ jobs' = res.jobs
               /\ last_served_group' = res.last_served_group
               /\ Submit(res.ret[1])
               /\ slots_left' = slots_left - 1
               /\ dispatched' = dispatched \cup {res.index}
               /\ UNCHANGED dpc
    /\ daemon_view' = <<>>
    /\ UNCHANGED <<enqueue_view, enqueue_returned>>
    /\ LostFrame

LostRequests == {Request("r1", "g1", FALSE), Request("r2", "g1", FALSE)}

LostNext ==
    \/ \E req \in LostRequests : enqueue_load(req)
    \/ enqueue_save
    \/ process_completed_jobs
    \/ schedule_jobs
    \/ dequeue_load
    \/ dequeue_save
    \/ \E i \in DOMAIN active_jobs : child_exit(i, TRUE)
    \/ Tick

LostSpec == Init /\ [][LostNext]_vars

\* C33: no update to queue.json is lost: every job whose enqueue returned
\* is in queue.json, and every job the daemon's dequeue_next marked running
\* is still there and not queued again, whatever the interleaving of the
\* enqueue command with the daemon.
C33_NoLostUpdate ==
    /\ \A e \in enqueue_returned :
          \E k \in DOMAIN jobs : jobs[k].job_id = e.job_id /\ jobs[k].run_id = e.run_id
    /\ \A k \in dispatched : k \in DOMAIN jobs /\ jobs[k].state # "queued"

TerminalStates == {"succeeded", "failed", "canceled"}

\* C34: the daemon starts a child for each job at most once: a step of the
\* daemon that starts a job starts one it has not started before, and a job
\* that is succeeded, failed or canceled keeps that state, with enqueue
\* commands of other processes interleaved.
C34_EachJobStartedAtMostOnce ==
    /\ [][(daemon_view # <<>> /\ daemon_view' = <<>> /\ dpc' = "scheduling")
          => dispatched' # dispatched]_vars
    /\ [][\A k \in DOMAIN jobs :
            (jobs[k].state \in TerminalStates /\ k \in DOMAIN jobs')
            => jobs'[k].state = jobs[k].state]_vars

\* C35: after pause_group(g) has returned and until resume_group(g), the
\* daemon starts no job of group g: every job it starts is of a group that
\* is not paused at that moment, also in a scheduling pass that began
\* before the pause.
C35_NoStartInPausedGroup ==
    [][\A k \in dispatched' \ dispatched :
          jobs[k].group_id = Null \/ jobs[k].group_id \notin paused]_vars

\* --------------------------------------------- the writers of one group.json
\* set_paused, _update_group_on_completion and _update_group_runs_queued each
\* load group.json, change the document and write it back.  The group.json of
\* group g1 is group_files["g1"] (name, paused) together with `group` (status,
\* runs, summary): a writer loads both and writes both.

RaceGroup == "g1"

RaceFrame ==
    UNCHANGED <<qvars, lockvars, storevars, plan, configs, applyvars, devicevars,
                settingsvars, executevars, cancelvars, reapvars, planvars, lostvars, dvars>>

\* the document a writer has loaded, and what it is about to do with it
GroupView(op, value, i, success) ==
    <<[op |-> op, value |-> value, run |-> i, success |-> success,
       file |-> group_files[RaceGroup], group |-> group]>>

\* set_paused(group_id, paused) up to json.load: group.json exists
set_paused_load(value) ==
    /\ group_view["pause"] = <<>>
    /\ group_files[RaceGroup] # <<>>
    /\ group_view' = [group_view EXCEPT !["pause"] = GroupView("set_paused", value, 0, FALSE)]
    /\ pause_acked' = IF value THEN pause_acked ELSE <<>>
    /\ UNCHANGED <<group_files, pause_call, group, agg_written>>
    /\ RaceFrame

\* set_paused: data["paused"] = paused, the document written back, return True
set_paused_save ==
    /\ group_view["pause"] # <<>>
    /\ LET view == group_view["pause"][1]
           out == SetPaused([group_files EXCEPT ![RaceGroup] = view.file], RaceGroup,
                            view.value)
       IN  /\ group_files' = out.files
           /\ group' = view.group
           /\ pause_call' = [op |-> "set_paused", group_id |-> RaceGroup,
                             value |-> view.value, returned |-> out.returned,
                             groups |-> {}]
           /\ pause_acked' = <<view.value>>
    /\ group_view' = [group_view EXCEPT !["pause"] = <<>>]
    /\ UNCHANGED agg_written
    /\ RaceFrame

\* _update_group_on_completion(job, success) up to json.load, for the job of
\* the run at position i
aggregator_load(i, success) ==
    /\ group_view["daemon"] = <<>>
    /\ group_files[RaceGroup] # <<>>
    /\ \A w \in agg_written : w.run # i
    /\ group_view' = [group_view EXCEPT !["daemon"] = GroupView("update", FALSE, i, success)]
    /\ UNCHANGED <<group_files, pause_call, group, pause_acked, agg_written>>
    /\ RaceFrame

\* _update_group_on_completion: the run's status, the counts, the group's
\* status, the best run; the document written back
aggregator_save ==
    /\ group_view["daemon"] # <<>>
    /\ LET view == group_view["daemon"][1]
           doc == UpdateGroup(view.group, view.group.runs[view.run].run_id, view.success,
                              <<>>)
       IN  /\ group' = doc
           /\ group_files' = [group_files EXCEPT ![RaceGroup] = view.file]
           /\ agg_written' = agg_written
                  \cup {[run |-> view.run, status |-> doc.runs[view.run].status]}
    /\ group_view' = [group_view EXCEPT !["daemon"] = <<>>]
    /\ UNCHANGED <<pause_call, pause_acked>>
    /\ RaceFrame

\* _update_group_runs_queued up to json.load
runs_queued_load ==
    /\ group_view["enqueue"] = <<>>
    /\ group_files[RaceGroup] # <<>>
    /\ \E i \in DOMAIN group.runs : group.runs[i].status = "pending"
    /\ group_view' = [group_view EXCEPT !["enqueue"] = GroupView("queued", FALSE, 0, FALSE)]
    /\ UNCHANGED <<group_files, pause_call, group, pause_acked, agg_written>>
    /\ RaceFrame

\* _update_group_runs_queued: the pending runs become queued; the document
\* written back
runs_queued_save ==
    /\ group_view["enqueue"] # <<>>
    /\ LET view == group_view["enqueue"][1]
       IN  /\ group' = [view.group EXCEPT !.runs =
                           [i \in DOMAIN view.group.runs |->
                               IF view.group.runs[i].status = "pending"
                               THEN [view.group.runs[i] EXCEPT !.status = "queued"]
                               ELSE view.group.runs[i]]]
           /\ group_files' = [group_files EXCEPT ![RaceGroup] = view.file]
    /\ group_view' = [group_view EXCEPT !["enqueue"] = <<>>]
    /\ UNCHANGED <<pause_call, pause_acked, agg_written>>
    /\ RaceFrame

RaceNext ==
    \/ \E value \in BOOLEAN : set_paused_load(value)
    \/ set_paused_save
    \/ \E i \in DOMAIN group.runs, success \in BOOLEAN : aggregator_load(i, success)
    \/ aggregator_save
    \/ runs_queued_load
    \/ runs_queued_save

\* enqueue_sweep_command has set up group g1 with two runs and enqueued them
RaceInitial ==
    /\ QueueInit /\ LockInit /\ StoreInit /\ AuxInit /\ DaemonInit(2, 1)
    /\ plan = <<>>
    /\ configs = [done |-> FALSE, runs |-> <<>>]
    /\ group = InitialGroup(<<RunId(0, 0), RunId(0, 1)>>)

RaceSpec == RaceInitial /\ [][RaceNext]_vars

\* C36: once set_paused(g, true) has returned true, is_paused(g) is true
\* until set_paused(g, false) is called, also when the aggregator or the
\* queued-flip rewrites the same group.json; and a run status the aggregator
\* has written stays in group.json.
C36_PauseAndRunStatusSurviveRewrites ==
    /\ pause_acked = <<TRUE>> => IsPaused(group_files, RaceGroup)
    /\ \A w \in agg_written : group.runs[w.run].status = w.status

\* --------------------------------------- a sweep's group, queue and daemon
\* enqueue_sweep_command: the runs of the group enqueued by one manager, in
\* the order of run_configs
RECURSIVE EnqueueAll(_, _, _, _)
EnqueueAll(js, counter, t, runs) ==
    IF runs = <<>> THEN js
    ELSE LET res == EnqueueResult(js, counter, t, Head(runs), ReapGroup, 0, FALSE)
         IN EnqueueAll(res.jobs, res.counter, t, Tail(runs))

\* _update_group_runs_queued on the document
RunsQueued(g) ==
    [g EXCEPT !.runs = [i \in DOMAIN g.runs |->
                           IF g.runs[i].status = "pending"
                           THEN [g.runs[i] EXCEPT !.status = "queued"]
                           ELSE g.runs[i]]]

SweepRuns == <<"r1", "r2">>

GroupLifeNext ==
    \/ reap_collect
    \/ reap_remove
    \/ reap_complete
    \/ reap_update_group
    \/ reap_return
    \/ schedule_jobs
    \/ schedule_one
    \/ \E i \in DOMAIN active_jobs, success \in BOOLEAN : child_exit(i, success)
    \/ cancel_group(ReapGroup)
    \/ \E i \in DOMAIN jobs : cancel_job(jobs[i].job_id)
    \/ request_shutdown
    \/ write_stopping
    \/ stop

\* enqueue_sweep_command has returned: the runs of the group are queued in
\* queue.json and in group.json; the daemon runs
GroupLifeInitial ==
    /\ LockInit /\ StoreInit /\ AuxInit
    /\ jobs = EnqueueAll(<<>>, 0, 0, SweepRuns)
    /\ last_served_group = Null
    /\ now = 0
    /\ job_counter = 0
    /\ last = Call("init", NoArgs, FALSE, <<>>, FALSE, 0)
    /\ plan = <<>>
    /\ configs = [done |-> FALSE, runs |-> <<>>]
    /\ group = RunsQueued(InitialGroup(SweepRuns))
    /\ \E mp \in ParallelChoices : DaemonInit(mp, 1)

GroupLifeSpec == GroupLifeInitial /\ [][GroupLifeNext]_vars

\* C37: once every job of the group is succeeded, failed or canceled in
\* queue.json (and the daemon is not in the middle of reaping one), the
\* group's status in group.json is terminal, its finished_at is set and none
\* of its runs is pending, queued or running.
C37_GroupTerminalWhenJobsTerminal ==
    (/\ completed = <<>>
     /\ \A k \in DOMAIN jobs : jobs[k].state \in TerminalStates)
    => /\ group.status \in {"completed", "failed", "canceled"}
       /\ group.finished_at # Null
       /\ PendingCount(group.runs) = 0

\* C38: in a foreground sweep, a run whose final status in group.json is
\* canceled was never started as a child process: when execute() has
\* returned, every run recorded as canceled is one that was not submitted
\* to the executor, and every run that was executed has the outcome of its
\* child.
C38_CanceledRunWasNeverStarted ==
    execute_pc = "returned"
    => \A i \in DOMAIN futures :
          /\ state.runs[i].status = "canceled" => futures[i].at = "none"
          /\ futures[i].at # "none" => state.runs[i].status \in {"succeeded", "failed"}

\* ------------------------------------------- run(): the exits by exception
\* run() without its outer `finally`: the exception leaves run() at once
run_raise_SkipsRelease(p, in_loop, written) ==
    /\ IF in_loop THEN run_pc[p] = "loop" /\ dpc # "exited"
                  ELSE run_pc[p] = "acquire" /\ acquired[p] = "True" /\ ~written
    /\ run_pc' = [run_pc EXCEPT ![p] = "raised"]
    /\ UNCHANGED <<lock_path, files_made, lock_owner, lock_pid, lfd, lpc, acquired,
                   exit_code, qvars, filevars, dvars>>

\* run(), after acquire() returned True, an exception is raised: in the
\* startup writes (set_max_parallel ... the executor), which are inside the
\* outer `try` only, or in the loop and the shutdown (in_loop), which are
\* inside the inner `try` too, whose `finally` writes the state "stopped"
\* (`written`, unless that write raises as well); then the outer `finally`
run_raise(p, in_loop, written) ==
    /\ IF in_loop
       THEN /\ run_pc[p] = "loop"
            /\ dpc # "exited"
            /\ dpc' = "exited"
            /\ daemon_state' = IF written THEN "stopped" ELSE daemon_state
       ELSE /\ run_pc[p] = "acquire"
            /\ acquired[p] = "True"
            /\ ~written
            /\ UNCHANGED <<dpc, daemon_state>>
    /\ run_pc' = [run_pc EXCEPT ![p] = "unwind"]
    /\ UNCHANGED <<lock_path, files_made, lock_owner, lock_pid, lfd, lpc, acquired,
                   exit_code, qvars, filevars, max_parallel, gpu_slots, active_jobs,
                   active_gpu_jobs, orphans, shutdown_requested, slots_left,
                   paused_snapshot, dispatched, hpc, hb_state>>

\* run(), the outer `finally` is over (release() has returned) and the
\* exception leaves run()
run_propagate(p) ==
    /\ run_pc[p] = "unwind"
    /\ lpc[p] = "idle"
    /\ run_pc' = [run_pc EXCEPT ![p] = "raised"]
    /\ UNCHANGED <<lock_path, files_made, lock_owner, lock_pid, lfd, lpc, acquired,
                   exit_code, qvars, filevars, dvars>>

\* run() is in its outer `finally`, after the loop or after an exception
Releasing(p) == run_pc[p] \in {"release", "unwind"}

ExitNext ==
    \/ \E p \in Starters :
          \/ run_start(p)
          \/ run_pc[p] = "acquire" /\ acquired[p] = Null /\ lock_open(p)
          \/ run_pc[p] = "acquire" /\ lock_try(p)
          \/ run_pc[p] = "acquire" /\ lock_write_pid(p)
          \/ run_acquire_failed(p)
          \/ \E mp \in ParallelChoices, gs \in GpuSlotChoices : run_configure(p, mp, gs)
          \/ \E in_loop \in BOOLEAN, written \in BOOLEAN : run_raise(p, in_loop, written)
          \/ run_finally(p)
          \/ Releasing(p) /\ lock_unlock(p)
          \/ Releasing(p) /\ lock_close(p)
          \/ Releasing(p) /\ lock_unlink(p)
          \/ run_return(p)
          \/ run_propagate(p)
    \/ InLoop /\ process_completed_jobs
    \/ InLoop /\ schedule_jobs
    \/ InLoop /\ schedule_one
    \/ InLoop /\ write_stopping
    \/ InLoop /\ stop
    \/ InLoop /\ request_shutdown

ExitSpec == StartupInit /\ [][ExitNext]_vars

\* C39: on every exit path of run() after the lock was acquired, by return
\* or by an exception, the lock is released: a process that has left run()
\* has no handle on the lock file and holds no lock, so that the lock is
\* free for a daemon started afterwards once no other process is inside.
C39_LockReleasedOnEveryExit ==
    \A p \in Starters :
        run_pc[p] \in {"returned", "raised"}
        => /\ lfd[p] = NoFile
           /\ lpc[p] = "idle"
           /\ \A f \in DOMAIN lock_owner : lock_owner[f] # p

\* a daemon left run() by an exception after it had the lock, and the other
\* daemon, started on the same workspace, has the lock now
C39_Witness ==
    \E p, q \in Starters :
        /\ run_pc[p] = "raised"
        /\ acquired[p] = "True"
        /\ run_pc[q] = "loop"
        /\ lpc[q] = "held"

\* -------------------------------------------------- draining the queue
\* what one dequeue_next call did to the queue, read from the call record:
\* None exactly when nothing was eligible, and then nothing written; else one
\* job that was queued is now running, it is the job returned, and no other
\* job changed
DrainStep(before, cursor, after, cursor_after, call) ==
    LET none == \A i \in DOMAIN before :
                    ~Eligible(before[i], call.args.paused, call.args.gpu)
    IN /\ (call.ret = <<>>) <=> none
       /\ call.ret = <<>> => (after = before /\ cursor_after = cursor)
       /\ call.ret # <<>> =>
            \E k \in DOMAIN before :
                /\ before[k].state = "queued"
                /\ after[k].state = "running"
                /\ call.ret[1] = after[k]
                /\ \A i \in DOMAIN before \ {k} : after[i] = before[i]

\* C40: dequeue_next returns None only when no job is eligible and then
\* leaves queue.json as it was; otherwise it returns a job that was queued
\* and leaves it running, so that n calls on n queued jobs return each job
\* exactly once and the call after them returns None.
C40_DequeueNextDrainsTheQueue ==
    [][(last' # last /\ last'.op = "dequeue_next")
         => DrainStep(jobs, last_served_group, jobs', last_served_group', last')]_vars
====
